---- MODULE Spec2Model ----
(***************************************************************************)
(* MetisMedia: the Redis-streams consumer worker (events/worker.py), the   *)
(* orchestration handlers A..G (orchestration/handlers.py), the Stage B    *)
(* handler (nodes/node_b/handler.py), the run repository and the cost      *)
(* ledger, as one state machine.                                           *)
(*                                                                         *)
(* Dollars are counted in units of 1e-4 dollar, so 0.001 is 10 and 0.01 is *)
(* 100.  Identifiers are strings; "none" stands for None/NULL.             *)
(***************************************************************************)
EXTENDS Integers, Sequences, FiniteSets, Bags, TLC

VARIABLES
    stream,         \* main stream metismedia:events: sequence of envelopes
    meta,           \* per stream entry: acked, and how its processing ended
    delivered,      \* last-delivered position of the consumer group
    dlq,            \* dead-letter stream: sequence of envelopes with error, dlq_reason
    idem_store,     \* idempotency key store: set of keys idem:{node}:{key}
    registry,       \* handler_registry passed to Worker.run: set of event names
    budget,         \* Budget.max_dollars passed to Worker.run
    wpc,            \* per worker: position in run()/_process_message
    wbatch,         \* per worker: stream positions of the batch still to process
    werr,           \* per worker: str(e) of the exception being handled
    wtx,            \* per worker: writes of the open DB transaction
    budget_states,  \* per worker: Worker._budget_states, key -> BudgetState
    runs,           \* runs table: run_id -> row
    terminal_writes,\* per run: committed writes of a terminal status
    worker_failed,  \* runs the worker's budget trap has written to failed
    influencers,    \* influencers table
    reservations,   \* reservations table: set of rows
    receipts,       \* receipts table: influencer -> number of rows
    target_cards,   \* target_cards table: <<campaign, influencer>> -> number of rows
    contacts,       \* contact_methods table: set of influencers
    drafts,         \* drafts table: <<campaign, influencer>> -> number of rows
    campaigns,      \* campaigns table: campaign_id -> brief
    ledger,         \* InMemoryLedger.entries
    now,            \* wall clock, minutes
    qtx,            \* per database session: the reservation query's transaction
    restarts,       \* number of times a worker process died and was started again
    bg,             \* a Budget's caps, a BudgetState, and the last call made on them
    aw,             \* the caller of await_completion: position, polls made, result
    st,             \* the caller of start_run: position, the rows it has committed
    wrun,           \* per worker: position in run(), Worker._stop_requested
    repo,           \* tables of several tenants, and the last repository call on them
    provider_ops    \* pulse checks: provider calls made and budget guard results

vars == <<stream, meta, delivered, dlq, idem_store, registry, budget, wpc,
          wbatch, werr, wtx, budget_states, runs, terminal_writes,
          worker_failed, influencers, reservations, receipts, target_cards,
          contacts, drafts, campaigns, ledger, now, qtx, restarts, bg, aw, st, wrun, repo,
          provider_ops>>

busVars == <<stream, meta, delivered, dlq, idem_store>>
workerVars == <<wpc, wbatch, werr, wtx, budget_states>>
dbVars == <<runs, terminal_writes, worker_failed, influencers, reservations,
            receipts, target_cards, contacts, drafts, campaigns>>
cfgVars == <<registry, budget>>
clientVars == <<aw, st, wrun, repo>>
envVars == <<qtx, restarts, bg, clientVars, provider_ops>>

----------------------------------------------------------------------------
(* Bounds *)

NumWorkers == 2
MaxPublish == 2
MaxRuns == 2
MaxTicks == 1
NumSessions == 2
MaxRestarts == 1
\* rows a target card key could have: one per execution of Stage D on it
MaxCardRows == MaxRestarts + 1
MaxDuplicates == 1
MaxDelta == 2
MaxCalls == 3
MaxProviderCalls == 2
MaxDollars == 3
MaxSoloRuns == 1
MaxRows == 2
MaxLimit == 2

Workers == 1..NumWorkers
\* scripts/demo_run.py starts one worker for the pipeline
RunWorkers == {w \in Workers : \A v \in Workers : w <= v}
\* database sessions calling the reservation query
Sessions == 1..NumSessions

----------------------------------------------------------------------------
(* Program constants *)

MAX_RETRIES == 5
COUNT == 10
FAIL_UNTIL_ATTEMPT == 3

Tenant == "t1"
\* tenant ids are UUIDs: the tenant of the pipeline and another one
Tenants == {Tenant, "t2"}
NoInfluencer == 0
NoPayload == [campaign_id |-> "none", influencer_id |-> NoInfluencer,
              query_embedding_id |-> "none", reservation_id |-> 0, limit |-> 0]

----------------------------------------------------------------------------
(* Envelope and idempotency key *)

EventEnvelope(event_id, tenant_id, node, event_name, payload, run_id, idempotency_key, attempt) ==
    [event_id |-> event_id, tenant_id |-> tenant_id, node |-> node,
     event_name |-> event_name, payload |-> payload, run_id |-> run_id,
     idempotency_key |-> idempotency_key, attempt |-> attempt]

make_idempotency_key(tenant_id, run_id, node, event_name, step) ==
    <<tenant_id, run_id, node, event_name, step>>

\* faulty variant: the key leaves out the node
build_idem_key_no_node(envelope) == <<"idem", envelope.idempotency_key>>

build_idem_key(envelope) ==
    <<"idem", envelope.node, envelope.idempotency_key>>

\* faulty variant: the gate finds no key
already_processed_never(store, envelope) == FALSE

already_processed(store, envelope) == build_idem_key(envelope) \in store

mark_processed(store, envelope) == store \cup {build_idem_key(envelope)}

\* event_id default_factory uuid4: a value no envelope published so far carries
FreshEventId(s) == Len(s) + 1

NewMeta == [acked |-> FALSE, result |-> "new"]

\* EventBus.publish: XADD to the main stream
publish(s, envelope) == Append(s, envelope)

\* NodeName
NodeNames == {"A", "B", "C", "D", "E", "F", "G"}

\* faulty variant: every message decodes
decode_envelope_lenient(message_data) == [error |-> "none", envelope |-> message_data]

\* decode_envelope: the envelope, or the ValueError raised for a message whose
\* node is missing or not a NodeName, or whose tenant_id is missing or not a UUID
decode_envelope(message_data) ==
    IF message_data.node \notin NodeNames
    THEN [error |-> "ValueError", envelope |-> message_data]
    ELSE IF message_data.tenant_id \notin Tenants
    THEN [error |-> "ValueError", envelope |-> message_data]
    ELSE [error |-> "none", envelope |-> message_data]

\* faulty variant: the dead-letter entry is added twice
publish_dlq_twice(d, envelope, error) ==
    Append(Append(d, [envelope |-> envelope, error |-> error,
                      dlq_reason |-> "max_retries_exceeded"]),
           [envelope |-> envelope, error |-> error, dlq_reason |-> "max_retries_exceeded"])

\* EventBus.publish_dlq: XADD to the dead-letter stream with error and reason
publish_dlq(d, envelope, error) ==
    Append(d, [envelope |-> envelope, error |-> error,
               dlq_reason |-> "max_retries_exceeded"])

RECURSIVE PublishAll(_, _)
PublishAll(s, envs) ==
    IF envs = <<>> THEN s ELSE PublishAll(publish(s, Head(envs)), Tail(envs))

RECURSIVE NewMetas(_, _)
NewMetas(m, n) == IF n = 0 THEN m ELSE NewMetas(Append(m, NewMeta), n - 1)

----------------------------------------------------------------------------
(* Cost ledger and budget guard *)

NoBudget == 0 - 1

\* compute_cost(unit_cost, quantity) = round(unit_cost * quantity, 6); unit
\* costs are given in 1e-4 dollars and quantities are whole numbers
compute_cost(unit_cost, quantity) == unit_cost * quantity

CostEntry(envelope, node, provider, operation, dollars) ==
    [run_id |-> envelope.run_id, node |-> node, provider |-> provider,
     operation |-> operation, dollars |-> dollars]

\* InMemoryLedger.record for each entry of a sequence; the entries are kept
\* as a bag, the list's order is never read
RECURSIVE RecordAll(_, _)
RecordAll(entries, costs) ==
    IF costs = <<>> THEN entries
    ELSE RecordAll(entries (+) SetToBag({Head(costs)}), Tail(costs))

RECURSIVE SumDollars(_, _)
SumDollars(entries, S) ==
    IF S = {} THEN 0
    ELSE LET e == CHOOSE x \in S : TRUE
         IN  e.dollars * entries[e] + SumDollars(entries, S \ {e})

\* InMemoryLedger.total_dollars(run_id)
total_dollars(entries, run_id) ==
    SumDollars(entries, {e \in BagToSet(entries) : e.run_id = run_id})

\* Budget and BudgetState; provider None is "none", a provider missing from
\* provider_calls counts 0 calls (dict.get(provider, 0))
Budget(max_dollars, max_provider_calls) ==
    [max_dollars |-> max_dollars, max_provider_calls |-> max_provider_calls]

BudgetState(dollars_spent, provider_calls) ==
    [dollars_spent |-> dollars_spent, provider_calls |-> provider_calls]

NoCaps == [p \in {} |-> 0]

\* self._budget_states = {}
NoBudgetStates == [key \in {} |-> BudgetState(0, NoCaps)]

ProviderCalls(state, provider) ==
    IF provider \in DOMAIN state.provider_calls THEN state.provider_calls[provider] ELSE 0

\* faulty variant: a delta that reaches a limit exactly is refused
budget_guard_at_limit(b, state, cost_delta, provider, calls_delta) ==
    IF cost_delta < 0 \/ calls_delta < 0 THEN "ValueError"
    ELSE IF state.dollars_spent + cost_delta >= b.max_dollars THEN "max_dollars"
    ELSE IF /\ provider # "none"
            /\ calls_delta > 0
            /\ provider \in DOMAIN b.max_provider_calls
            /\ ProviderCalls(state, provider) + calls_delta >= b.max_provider_calls[provider]
         THEN "max_provider_calls"
    ELSE "ok"

\* budget_guard: "ok" when it returns, "ValueError" for a negative delta, else
\* the limit_type of the BudgetExceeded it raises
budget_guard(b, state, cost_delta, provider, calls_delta) ==
    IF cost_delta < 0 THEN "ValueError"
    ELSE IF calls_delta < 0 THEN "ValueError"
    ELSE IF state.dollars_spent + cost_delta > b.max_dollars THEN "max_dollars"
    ELSE IF /\ provider # "none"
            /\ calls_delta > 0
            /\ provider \in DOMAIN b.max_provider_calls
            /\ ProviderCalls(state, provider) + calls_delta > b.max_provider_calls[provider]
         THEN "max_provider_calls"
    ELSE "ok"

BudgetExceeded == {"max_dollars", "max_provider_calls"}

----------------------------------------------------------------------------
(* A handler invocation: what it has done when it returns or raises.        *)
(*   outcome  "run" while executing, "ok" returned, "budget" BudgetExceeded *)
(*   tx       writes of its DB transaction, applied by the commit          *)
(*   pubs     envelopes passed to bus.publish, in order                    *)
(*   costs    entries recorded in the ledger, in order                     *)
(*   spent    dollars_spent of the per-run BudgetState                     *)

(*   base     number of envelopes on the main stream when it started        *)

(*   pos      stream position of the envelope it was invoked for            *)

(*   ops      pulse provider and embedding provider calls made, and the     *)

(*            results of the budget guard on their costs, in order          *)

StartEffect(spent, base, pos) ==
    [outcome |-> "run", tx |-> <<>>, pubs |-> <<>>, costs |-> <<>>,
     spent |-> spent, error |-> "none", base |-> base, pos |-> pos, ops |-> <<>>]

\* the worker's Budget: max_dollars and the provider caps
WorkerBudget == Budget(budget, bg.max_provider_calls)

\* budget_guard(budget, budget_state, cost_delta=dollars, provider=provider,
\* calls_delta=1) raises BudgetExceeded
BudgetRaises(eff, dollars, provider) ==
    /\ budget # NoBudget
    /\ budget_guard(WorkerBudget, eff.spent, dollars, provider, 1) \in BudgetExceeded

\* faulty variant: the BudgetState is updated whether or not the guard raised
_record_cost_unguarded(eff, envelope, node, provider, operation, unit_cost, quantity) ==
    LET dollars == compute_cost(unit_cost, quantity)
        entry == CostEntry(envelope, node, provider, operation, dollars)
        counted == BudgetState(eff.spent.dollars_spent + dollars,
                       [p \in DOMAIN eff.spent.provider_calls \cup {provider} |->
                           IF p = provider THEN ProviderCalls(eff.spent, p) + 1
                           ELSE eff.spent.provider_calls[p]])
    IN  IF eff.outcome # "run" THEN eff
        ELSE IF BudgetRaises(eff, dollars, provider)
             THEN [eff EXCEPT !.costs = Append(@, entry),
                              !.spent = counted,
                              !.outcome = "budget",
                              !.error = "Budget exceeded"]
             ELSE [eff EXCEPT !.costs = Append(@, entry),
                              !.spent = IF budget = NoBudget THEN @ ELSE counted]

\* _record_cost: the entry is recorded in the ledger, then the guard is
\* evaluated, then the BudgetState is updated
_record_cost(eff, envelope, node, provider, operation, unit_cost, quantity) ==
    LET dollars == compute_cost(unit_cost, quantity)
        entry == CostEntry(envelope, node, provider, operation, dollars)
    IN  IF eff.outcome # "run" THEN eff
        ELSE IF BudgetRaises(eff, dollars, provider)
             THEN [eff EXCEPT !.costs = Append(@, entry),
                              !.outcome = "budget",
                              !.error = "Budget exceeded"]
             ELSE [eff EXCEPT !.costs = Append(@, entry),
                              !.spent = IF budget = NoBudget THEN @
                                        ELSE BudgetState(@.dollars_spent + dollars,
                                                 [p \in DOMAIN @.provider_calls \cup {provider} |->
                                                     IF p = provider THEN ProviderCalls(@, p) + 1
                                                     ELSE @.provider_calls[p]])]

\* pulse_provider.fetch_recent_summaries / embedding_provider.embed is awaited
Call(eff, operation, influencer_id) ==
    IF eff.outcome # "run" THEN eff
    ELSE [eff EXCEPT !.ops = Append(@, [kind |-> "call", operation |-> operation,
                                        influencer_id |-> influencer_id])]

\* what budget_guard did inside the _record_cost that produced eff
Guarded(eff, operation, influencer_id) ==
    IF eff.outcome \notin {"run", "budget"} \/ budget = NoBudget THEN eff
    ELSE [eff EXCEPT !.ops = Append(@, [kind |-> IF eff.outcome = "budget" THEN "guard_raise"
                                                 ELSE "guard_ok",
                                        operation |-> operation,
                                        influencer_id |-> influencer_id])]

\* the operations of one invocation, numbered in order, under its stream position
LogOps(log, eff) ==
    log \cup {[pos |-> eff.pos, seq |-> j, kind |-> eff.ops[j].kind,
               operation |-> eff.ops[j].operation,
               influencer_id |-> eff.ops[j].influencer_id] : j \in 1..Len(eff.ops)}

Write(eff, w) == IF eff.outcome # "run" THEN eff ELSE [eff EXCEPT !.tx = Append(@, w)]

\* bus.publish(EventEnvelope(...)) inside a handler: a new envelope, fresh event_id
Pub(eff, envelope) ==
    IF eff.outcome # "run" THEN eff
    ELSE [eff EXCEPT !.pubs = Append(@, [envelope EXCEPT !.event_id = eff.base + Len(eff.pubs) + 1])]

Return(eff) == IF eff.outcome # "run" THEN eff ELSE [eff EXCEPT !.outcome = "ok"]

Raise(eff, msg) == IF eff.outcome # "run" THEN eff ELSE [eff EXCEPT !.outcome = "error", !.error = msg]

----------------------------------------------------------------------------
(* Run repository *)

NoResult == [target_cards_count |-> 0 - 1, drafts_count |-> 0 - 1,
             total_cost_dollars |-> 0 - 1, notes |-> "none"]

ResultJson(cards, n_drafts, total, notes) ==
    [target_cards_count |-> cards, drafts_count |-> n_drafts,
     total_cost_dollars |-> total, notes |-> notes]

UpdateStatusOp(run_id, status, error_message, result_json) ==
    [op |-> "update_status", run_id |-> run_id, status |-> status,
     error_message |-> error_message, result_json |-> result_json]

\* RunRepo.update_status: UPDATE runs SET status, error_message, result_json
\* WHERE id = run_id; no row, no change
update_status(rs, run_id, status, error_message, result_json) ==
    IF run_id \in DOMAIN rs
    THEN [rs EXCEPT ![run_id].status = status,
                    ![run_id].error_message = error_message,
                    ![run_id].result_json = result_json]
    ELSE rs

IsTerminal(status) == status \in {"completed", "failed"}

\* orchestration/handlers.py _mark_run_completed_no_targets
_mark_run_completed_no_targets(eff, run_id) ==
    Write(eff, UpdateStatusOp(run_id, "completed", "none", ResultJson(0, 0, 0, "none")))

\* nodes/node_b/handler.py _mark_run_completed_no_targets
node_b_mark_run_completed_no_targets(eff, run_id) ==
    Write(eff, UpdateStatusOp(run_id, "completed", "none",
                              ResultJson(0, 0, 0, "No candidates passed Node B filters")))

\* nodes/node_b/handler.py _mark_run_failed
_mark_run_failed(eff, run_id, error_message) ==
    Write(eff, UpdateStatusOp(run_id, "failed", error_message, NoResult))

----------------------------------------------------------------------------
(* Pass-through handlers, orchestration/handlers.py *)

NextEnvelope(envelope, node, event_name, step, payload) ==
    EventEnvelope(0, envelope.tenant_id, node, event_name, payload, envelope.run_id,
                  make_idempotency_key(envelope.tenant_id, envelope.run_id, node, event_name, step),
                  0)

handle_node_a_brief_finalized(envelope, eff0) ==
    LET e1 == _record_cost(eff0, envelope, "A", "internal", "brief_validate", 0, 1)
        query_embedding_id == envelope.payload.query_embedding_id
        campaign_id == envelope.payload.campaign_id
    IN  IF query_embedding_id = "none"
        THEN Return(_mark_run_completed_no_targets(e1, envelope.run_id))
        ELSE Return(Pub(e1, NextEnvelope(envelope, "B", "node_b.input", <<"reserve">>,
                 [NoPayload EXCEPT !.campaign_id = campaign_id,
                                   !.query_embedding_id = query_embedding_id,
                                   !.limit = 10])))

handle_node_b_directive_emitted(envelope, eff0) ==
    LET campaign_id == envelope.payload.campaign_id
        influencer_id == envelope.payload.influencer_id
    IN  IF campaign_id = "none" \/ influencer_id = NoInfluencer THEN Return(eff0)
        ELSE Return(Pub(eff0, NextEnvelope(envelope, "C", "node_c.input", <<"discover", influencer_id>>,
                 [NoPayload EXCEPT !.campaign_id = campaign_id, !.influencer_id = influencer_id])))

handle_node_c_input(envelope, eff0) ==
    LET campaign_id == envelope.payload.campaign_id
        influencer_id == envelope.payload.influencer_id
        e1 == Write(eff0, [op |-> "insert_receipt", influencer_id |-> influencer_id])
        e2 == _record_cost(e1, envelope, "C", "mock_discovery", "scrape", 200, 1)
    IN  IF influencer_id = NoInfluencer THEN Return(eff0)
        ELSE Return(Pub(e2, NextEnvelope(envelope, "D", "node_d.input", <<"profile", influencer_id>>,
                 [NoPayload EXCEPT !.campaign_id = campaign_id, !.influencer_id = influencer_id])))

handle_node_d_input(envelope, eff0) ==
    LET campaign_id == envelope.payload.campaign_id
        influencer_id == envelope.payload.influencer_id
        e1 == Write(eff0, [op |-> "insert_target_card", campaign_id |-> campaign_id,
                           influencer_id |-> influencer_id])
        e2 == _record_cost(e1, envelope, "D", "mock_llm", "profile", 100, 1)
    IN  IF campaign_id = "none" \/ influencer_id = NoInfluencer THEN Return(eff0)
        ELSE Return(Pub(e2, NextEnvelope(envelope, "E", "node_e.input", <<"contact", influencer_id>>,
                 [NoPayload EXCEPT !.campaign_id = campaign_id, !.influencer_id = influencer_id])))

handle_node_e_input(envelope, eff0) ==
    LET campaign_id == envelope.payload.campaign_id
        influencer_id == envelope.payload.influencer_id
        e1 == Write(eff0, [op |-> "insert_contact_method", influencer_id |-> influencer_id])
        e2 == _record_cost(e1, envelope, "E", "mock_contact", "lookup", 50, 1)
    IN  IF influencer_id = NoInfluencer THEN Return(eff0)
        ELSE Return(Pub(e2, NextEnvelope(envelope, "F", "node_f.input", <<"draft", influencer_id>>,
                 [NoPayload EXCEPT !.campaign_id = campaign_id, !.influencer_id = influencer_id])))

handle_node_f_input(envelope, eff0) ==
    LET campaign_id == envelope.payload.campaign_id
        influencer_id == envelope.payload.influencer_id
        e1 == Write(eff0, [op |-> "insert_draft", campaign_id |-> campaign_id,
                           influencer_id |-> influencer_id])
        e2 == _record_cost(e1, envelope, "F", "mock_llm", "draft_generate", 150, 1)
    IN  IF campaign_id = "none" \/ influencer_id = NoInfluencer THEN Return(eff0)
        ELSE Return(Pub(e2, NextEnvelope(envelope, "G", "node_g.input", <<"finalize", influencer_id>>,
                 [NoPayload EXCEPT !.campaign_id = campaign_id, !.influencer_id = influencer_id])))

\* faulty variant: a plain INSERT into a table without the unique constraint
insert_target_card_plain(cards, campaign_id, influencer_id) ==
    [cards EXCEPT ![<<campaign_id, influencer_id>>] = @ + 1]

\* TargetCardRepo.insert_target_card: INSERT ... ON CONFLICT (tenant_id,
\* campaign_id, influencer_id) DO UPDATE SET payload, updated_at
insert_target_card(cards, campaign_id, influencer_id) ==
    [cards EXCEPT ![<<campaign_id, influencer_id>>] = IF @ = 0 THEN 1 ELSE @]

\* TargetCardRepo.list_target_cards(tenant_id, campaign_id): the rows, each
\* named by its key and its rank among the rows of that key
list_target_cards(campaign_id) ==
    {c \in (DOMAIN target_cards) \X (1..MaxCardRows) :
        c[1][1] = campaign_id /\ c[2] <= target_cards[c[1]]}

RECURSIVE SumOver(_, _)
SumOver(f, S) ==
    IF S = {} THEN 0 ELSE LET x == CHOOSE y \in S : TRUE IN f[x] + SumOver(f, S \ {x})

\* len(DraftRepo.list_drafts(tenant_id, campaign_id))
count_drafts(campaign_id) == SumOver(drafts, {k \in DOMAIN drafts : k[1] = campaign_id})

\* the ledger is read after this invocation's own finalize entry was recorded
handle_node_g_input(envelope, eff0) ==
    LET e1 == _record_cost(eff0, envelope, "G", "internal", "finalize", 0, 1)
        campaign_id == envelope.payload.campaign_id
        total_cost_dollars == total_dollars(RecordAll(ledger, e1.costs), envelope.run_id)
    IN  IF campaign_id = "none" THEN Return(e1)
        ELSE Return(Write(e1, UpdateStatusOp(envelope.run_id, "completed", "none",
                 ResultJson(Cardinality(list_target_cards(campaign_id)),
                            count_drafts(campaign_id), total_cost_dollars, "none"))))

----------------------------------------------------------------------------
(* Stage B, nodes/node_b/handler.py.  Scores are in thousandths.            *)

TAU_PRE == 850
PULSE_SIMILARITY_MIN == 850
DEFAULT_PRESELECT_K == 200
PULSE_CACHE_TTL_MINUTES == 1440
RESERVATION_DURATION_MINUTES == 30

\* embeddings table: ids of the campaign embeddings that exist
Embeddings == {"q1"}

\* embeddings rows of kind 'recent' whose vector column is NULL
VectorlessEmbeddings == {2}

\* SELECT vector::text FROM embeddings WHERE id = :embedding_id returns a row
\* with a vector
RecentVector(embedding_id) == embedding_id \notin VectorlessEmbeddings

Min(a, b) == IF a < b THEN a ELSE b
Max(a, b) == IF a > b THEN a ELSE b
Clip01(x) == Max(0, Min(1000, x))

\* compute_recency_score at the ages the fleet uses: 0.5^(age/7), 0 beyond 14 days
compute_recency_score(age_days) ==
    IF age_days > 14 THEN 0
    ELSE IF age_days = 0 THEN 1000
    ELSE IF age_days <= 7 THEN 500
    ELSE 250

_polarity_intent_to_desired(polarity_intent) ==
    IF polarity_intent = "allies" THEN 10
    ELSE IF polarity_intent = "critics" THEN 0 - 10
    ELSE IF polarity_intent = "watchlist" THEN 0
    ELSE 10

\* (1 + desired*influencer/100) / 2 clipped to [0,1]; 0 for an ally campaign
\* and a negative influencer
compute_polarity_alignment(desired, influencer) ==
    IF desired > 0 /\ influencer < 0 THEN 0
    ELSE Clip01((1000 + 10 * desired * influencer) \div 2)

\* compute_mms with unit weights is the geometric mean of the three clipped
\* factors; MmsCube is its third power (in 1e-9), which orders candidates as
\* mms does and compares with a threshold t as mms >= t iff MmsCube >= t^3
MmsCube(similarity, recency_score, polarity_alignment) ==
    Clip01(similarity) * Clip01(recency_score) * Clip01(polarity_alignment)

CandidateMmsCube(i, desired) ==
    MmsCube(influencers[i].similarity,
            compute_recency_score(influencers[i].age_days),
            compute_polarity_alignment(desired, influencers[i].polarity_score))

ActiveReservation(rsv, i, t) ==
    \E r \in rsv : r.influencer_id = i /\ r.reserved_until > t

\* the WHERE clause of the prefilter query, on committed rows
PrefilterEligible(i) ==
    /\ influencers[i].bio_embedding_id # 0
    /\ ~influencers[i].do_not_contact
    /\ influencers[i].cooling_off_until <= now
    /\ ~ActiveReservation(reservations, i, now)

RemoveAt(seq, k) == SubSeq(seq, 1, k - 1) \o SubSeq(seq, k + 1, Len(seq))

\* stable sort of a sequence by descending key (list.sort(reverse=True))
RECURSIVE SortDesc(_, _)
SortDesc(seq, key) ==
    IF seq = <<>> THEN <<>>
    ELSE LET k == CHOOSE a \in 1..Len(seq) :
                     /\ \A b \in 1..Len(seq) : key[seq[a]] >= key[seq[b]]
                     /\ \A b \in 1..(a - 1) : key[seq[b]] < key[seq[a]]
         IN  <<seq[k]>> \o SortDesc(RemoveAt(seq, k), key)

\* the rows of a set of influencers in the table's row order (ascending id)
RECURSIVE RowOrder(_)
RowOrder(S) ==
    IF S = {} THEN <<>>
    ELSE LET x == CHOOSE y \in S : \A z \in S : y <= z IN <<x>> \o RowOrder(S \ {x})

Take(seq, n) == SubSeq(seq, 1, Min(n, Len(seq)))

\* ORDER BY distance LIMIT :limit
_safety_prefilter_candidates(limit) ==
    Take(SortDesc(RowOrder({i \in DOMAIN influencers : PrefilterEligible(i)}),
                  [i \in DOMAIN influencers |-> influencers[i].similarity]), limit)

SeqSet(seq) == {seq[k] : k \in 1..Len(seq)}

\* faulty variant: no candidate is rejected for its mms
PassingSortedNoThreshold(candidates, desired) ==
    SortDesc(candidates, [i \in DOMAIN influencers |-> CandidateMmsCube(i, desired)])

\* _filter_by_mms_threshold followed by passing.sort(key=mms, reverse=True)
PassingSorted(candidates, desired) ==
    SortDesc(SelectSeq(candidates,
                       LAMBDA i : CandidateMmsCube(i, desired) >= TAU_PRE * TAU_PRE * TAU_PRE),
             [i \in DOMAIN influencers |-> CandidateMmsCube(i, desired)])

ReservationId(pos, i) == pos * 10 + i

ReservedInTx(tx, i) ==
    \E k \in 1..Len(tx) : tx[k].op = "insert_reservation" /\ tx[k].row.influencer_id = i

\* _reserve_candidates: per candidate SELECT 1 FROM reservations (committed
\* rows and the transaction's own), INSERT when none is active
RECURSIVE _reserve_candidates(_, _, _)
_reserve_candidates(eff, candidates, reason) ==
    IF candidates = <<>> THEN eff
    ELSE LET c == Head(candidates)
             row == [id |-> ReservationId(eff.pos, c), tenant_id |-> Tenant,
                     influencer_id |-> c,
                     reserved_until |-> now + RESERVATION_DURATION_MINUTES,
                     reason |-> reason]
             e1 == IF ActiveReservation(reservations, c, now) \/ ReservedInTx(eff.tx, c)
                   THEN eff
                   ELSE Write(eff, [op |-> "insert_reservation", row |-> row])
         IN  _reserve_candidates(e1, Tail(candidates), reason)

\* faulty variant: a BudgetExceeded of _record_cost is caught with the provider
\* errors and the candidate is inconclusive
_pulse_check_candidate_catch_all(eff, envelope, c) ==
    LET row == influencers[c]
        caught(e) == IF e.outcome = "budget" THEN [e EXCEPT !.outcome = "run", !.error = "none"]
                     ELSE e
        c1 == Call(eff, "fetch_summaries", c)
        e1 == Guarded(_record_cost(c1, envelope, "B", "pulse_provider", "fetch_summaries", 100, 1),
                      "fetch_summaries", c)
        c2 == Call(e1, "embed", c)
        e2 == Guarded(_record_cost(c2, envelope, "B", "embedding_provider", "embed", 1, 1),
                      "embed", c)
        e3 == Write(e2, [op |-> "update_pulse", influencer_id |-> c,
                         last_pulse_checked_at |-> now,
                         recent_embedding_id |-> ReservationId(eff.pos, c),
                         recent_similarity |-> row.fresh_similarity])
    IN  IF /\ row.last_pulse_checked_at >= 0
           /\ now - row.last_pulse_checked_at < PULSE_CACHE_TTL_MINUTES
           /\ row.recent_embedding_id # 0
           /\ RecentVector(row.recent_embedding_id)
        THEN [eff |-> eff,
              status |-> IF row.recent_similarity >= PULSE_SIMILARITY_MIN THEN "pass" ELSE "fail"]
        ELSE IF row.primary_url = "none" THEN [eff |-> eff, status |-> "inconclusive"]
        ELSE IF row.summaries = "error" THEN [eff |-> c1, status |-> "inconclusive"]
        ELSE IF e1.outcome # "run" THEN [eff |-> caught(e1), status |-> "inconclusive"]
        ELSE IF row.summaries = "empty" THEN [eff |-> e1, status |-> "inconclusive"]
        ELSE IF row.summaries = "unembeddable" THEN [eff |-> c2, status |-> "inconclusive"]
        ELSE IF e2.outcome # "run" THEN [eff |-> caught(e2), status |-> "inconclusive"]
        ELSE [eff |-> e3,
              status |-> IF row.fresh_similarity >= PULSE_SIMILARITY_MIN THEN "pass" ELSE "fail"]

\* _pulse_check_candidate: the invocation so far and the PulseStatus
_pulse_check_candidate(eff, envelope, c) ==
    LET row == influencers[c]
        c1 == Call(eff, "fetch_summaries", c)
        e1 == Guarded(_record_cost(c1, envelope, "B", "pulse_provider", "fetch_summaries", 100, 1),
                      "fetch_summaries", c)
        c2 == Call(e1, "embed", c)
        e2 == Guarded(_record_cost(c2, envelope, "B", "embedding_provider", "embed", 1, 1),
                      "embed", c)
        e3 == Write(e2, [op |-> "update_pulse", influencer_id |-> c,
                         last_pulse_checked_at |-> now,
                         recent_embedding_id |-> ReservationId(eff.pos, c),
                         recent_similarity |-> row.fresh_similarity])
    IN  IF /\ row.last_pulse_checked_at >= 0
           /\ now - row.last_pulse_checked_at < PULSE_CACHE_TTL_MINUTES
           /\ row.recent_embedding_id # 0
           /\ RecentVector(row.recent_embedding_id)
        THEN [eff |-> eff,
              status |-> IF row.recent_similarity >= PULSE_SIMILARITY_MIN THEN "pass" ELSE "fail"]
        ELSE IF row.primary_url = "none" THEN [eff |-> eff, status |-> "inconclusive"]
        ELSE IF row.summaries = "error" THEN [eff |-> c1, status |-> "inconclusive"]
        ELSE IF e1.outcome # "run" THEN [eff |-> e1, status |-> "raised"]
        ELSE IF row.summaries = "empty" THEN [eff |-> e1, status |-> "inconclusive"]
        ELSE IF row.summaries = "unembeddable" THEN [eff |-> c2, status |-> "inconclusive"]
        ELSE IF e2.outcome # "run" THEN [eff |-> e2, status |-> "raised"]
        ELSE [eff |-> e3,
              status |-> IF row.fresh_similarity >= PULSE_SIMILARITY_MIN THEN "pass" ELSE "fail"]

\* faulty variant: every reserved candidate is pulse-checked
RECURSIVE PulseLoopNoStop(_, _, _, _, _)
PulseLoopNoStop(eff, envelope, candidates, pulse_passing, desired_count) ==
    IF candidates = <<>> \/ eff.outcome # "run"
    THEN [eff |-> eff, pulse_passing |-> pulse_passing]
    ELSE LET r == _pulse_check_candidate(eff, envelope, Head(candidates))
         IN  PulseLoopNoStop(r.eff, envelope, Tail(candidates),
                             IF r.status = "pass" THEN Append(pulse_passing, Head(candidates))
                             ELSE pulse_passing,
                             desired_count)

\* the loop over reserved candidates: stops when desired_count have passed
RECURSIVE PulseLoop(_, _, _, _, _)
PulseLoop(eff, envelope, candidates, pulse_passing, desired_count) ==
    IF candidates = <<>> \/ Len(pulse_passing) >= desired_count \/ eff.outcome # "run"
    THEN [eff |-> eff, pulse_passing |-> pulse_passing]
    ELSE LET r == _pulse_check_candidate(eff, envelope, Head(candidates))
         IN  PulseLoop(r.eff, envelope, Tail(candidates),
                       IF r.status = "pass" THEN Append(pulse_passing, Head(candidates))
                       ELSE pulse_passing,
                       desired_count)

RECURSIVE PubDirectives(_, _, _)
PubDirectives(eff, envelope, pulse_passing) ==
    IF pulse_passing = <<>> THEN eff
    ELSE LET c == Head(pulse_passing)
         IN  PubDirectives(
                 Pub(eff, NextEnvelope(envelope, "B", "node_b.directive_emitted", <<"proceed", c>>,
                     [NoPayload EXCEPT !.campaign_id = envelope.payload.campaign_id,
                                       !.influencer_id = c,
                                       !.reservation_id = ReservationId(eff.pos, c)])),
                 envelope, Tail(pulse_passing))

handle_node_b_input(envelope, eff0) ==
    LET campaign_id == envelope.payload.campaign_id
        run_id == envelope.run_id
        desired_count == envelope.payload.limit
        brief == campaigns[campaign_id]
        query_embedding_id ==
            IF envelope.payload.query_embedding_id # "none"
            THEN envelope.payload.query_embedding_id
            ELSE brief.query_embedding_id
        desired == _polarity_intent_to_desired(brief.polarity_intent)
        e1 == _record_cost(eff0, envelope, "B", "postgres", "safety_prefilter", 10, 1)
        candidates == _safety_prefilter_candidates(DEFAULT_PRESELECT_K)
        e2 == _record_cost(e1, envelope, "B", "internal", "mms_compute", 0, Len(candidates))
        passing == PassingSorted(candidates, desired)
        e3 == _reserve_candidates(e2, Take(passing, desired_count * 2), campaign_id)
        reserved_candidates == SelectSeq(passing, LAMBDA i : ReservedInTx(e3.tx, i))
        pl == PulseLoop(e3, envelope, Take(reserved_candidates, desired_count * 2),
                        <<>>, desired_count)
        e5 == PubDirectives(pl.eff, envelope, pl.pulse_passing)
        cache_miss == Len(pl.pulse_passing) = 0
        e6 == Pub(e5, NextEnvelope(envelope, "C", "node_c.discovery_needed", <<"bulk">>,
                      [NoPayload EXCEPT !.campaign_id = campaign_id,
                                        !.limit = desired_count - Len(pl.pulse_passing)]))
    IN  IF campaign_id = "none"
        THEN Return(_mark_run_failed(eff0, run_id, "No campaign_id"))
        ELSE IF campaign_id \notin DOMAIN campaigns
        THEN Return(_mark_run_failed(eff0, run_id, "Campaign not found"))
        ELSE IF query_embedding_id = "none"
        THEN Return(node_b_mark_run_completed_no_targets(eff0, run_id))
        ELSE IF query_embedding_id \notin Embeddings
        THEN Return(_mark_run_failed(eff0, run_id, "Campaign embedding not found"))
        ELSE IF e1.outcome # "run" THEN e1
        ELSE IF candidates = <<>>
        THEN Return(node_b_mark_run_completed_no_targets(e1, run_id))
        ELSE IF passing = <<>>
        THEN Return(node_b_mark_run_completed_no_targets(e2, run_id))
        ELSE IF reserved_candidates = <<>>
        THEN Return(node_b_mark_run_completed_no_targets(e3, run_id))
        ELSE IF pl.eff.outcome # "run" THEN pl.eff
        ELSE IF Len(pl.pulse_passing) = 0
        THEN Return(node_b_mark_run_completed_no_targets(e5, run_id))
        ELSE IF cache_miss THEN Return(e6)
        ELSE Return(e5)

----------------------------------------------------------------------------
(* The database: committing a transaction applies its writes in order *)

Db == [runs |-> runs, terminal_writes |-> terminal_writes, influencers |-> influencers,
       reservations |-> reservations, receipts |-> receipts,
       target_cards |-> target_cards, contacts |-> contacts, drafts |-> drafts]

ApplyWrite(db, w) ==
    IF w.op = "update_status"
    THEN [db EXCEPT !.runs = update_status(@, w.run_id, w.status, w.error_message, w.result_json),
                    !.terminal_writes =
                        IF w.run_id \in DOMAIN db.runs /\ IsTerminal(w.status)
                        THEN [@ EXCEPT ![w.run_id] = @ + 1] ELSE @]
    ELSE IF w.op = "insert_receipt"
    THEN [db EXCEPT !.receipts[w.influencer_id] = @ + 1]
    ELSE IF w.op = "insert_target_card"
    THEN [db EXCEPT !.target_cards = insert_target_card(@, w.campaign_id, w.influencer_id)]
    ELSE IF w.op = "insert_contact_method"
    THEN [db EXCEPT !.contacts = @ \cup {w.influencer_id}]
    ELSE IF w.op = "insert_draft"
    THEN [db EXCEPT !.drafts[<<w.campaign_id, w.influencer_id>>] = @ + 1]
    ELSE IF w.op = "insert_reservation"
    THEN [db EXCEPT !.reservations = @ \cup {w.row}]
    ELSE IF w.op = "update_pulse"
    THEN [db EXCEPT !.influencers[w.influencer_id].last_pulse_checked_at = w.last_pulse_checked_at,
                    !.influencers[w.influencer_id].recent_embedding_id = w.recent_embedding_id,
                    !.influencers[w.influencer_id].recent_similarity = w.recent_similarity]
    ELSE db

RECURSIVE ApplyAll(_, _)
ApplyAll(db, tx) == IF tx = <<>> THEN db ELSE ApplyAll(ApplyWrite(db, Head(tx)), Tail(tx))

SetDb(db) ==
    /\ runs' = db.runs
    /\ terminal_writes' = db.terminal_writes
    /\ influencers' = db.influencers
    /\ reservations' = db.reservations
    /\ receipts' = db.receipts
    /\ target_cards' = db.target_cards
    /\ contacts' = db.contacts
    /\ drafts' = db.drafts

----------------------------------------------------------------------------
(* Handler registries *)

\* events/handlers.py get_test_handler_registry
TestEvents == {"test.ok", "test.flaky", "test.always_fail"}

\* orchestration/registry.py build_handler_registry
PipelineEvents == {"node_a.brief_finalized", "node_b.input", "node_b.directive_emitted",
                   "node_c.input", "node_d.input", "node_e.input", "node_f.input",
                   "node_g.input"}

handler_ok(envelope, eff0) == Return(eff0)

handler_flaky(envelope, eff0) ==
    IF envelope.attempt < FAIL_UNTIL_ATTEMPT THEN Raise(eff0, "Flaky failure") ELSE Return(eff0)

handler_always_fail(envelope, eff0) == Raise(eff0, "Always fails")

\* handler_registry.get(envelope.event_name) followed by _invoke_handler
InvokeHandler(envelope, eff0) ==
    CASE envelope.event_name = "test.ok" -> handler_ok(envelope, eff0)
      [] envelope.event_name = "test.flaky" -> handler_flaky(envelope, eff0)
      [] envelope.event_name = "test.always_fail" -> handler_always_fail(envelope, eff0)
      [] envelope.event_name = "node_a.brief_finalized" -> handle_node_a_brief_finalized(envelope, eff0)
      [] envelope.event_name = "node_b.input" -> handle_node_b_input(envelope, eff0)
      [] envelope.event_name = "node_b.directive_emitted" -> handle_node_b_directive_emitted(envelope, eff0)
      [] envelope.event_name = "node_c.input" -> handle_node_c_input(envelope, eff0)
      [] envelope.event_name = "node_d.input" -> handle_node_d_input(envelope, eff0)
      [] envelope.event_name = "node_e.input" -> handle_node_e_input(envelope, eff0)
      [] envelope.event_name = "node_f.input" -> handle_node_f_input(envelope, eff0)
      [] envelope.event_name = "node_g.input" -> handle_node_g_input(envelope, eff0)
      [] OTHER -> Return(eff0)

\* _make_wrapper: the handler runs inside db_session() and commits
UsesSession(event_name) == event_name \in PipelineEvents

----------------------------------------------------------------------------
(* Worker.run and Worker._process_message *)

Pos(w) == Head(wbatch[w])
Cur(w) == stream[Pos(w)]

SetResult(m, pos, result) == [m EXCEPT ![pos].result = result]

\* xreadgroup(streams={stream: ">"}, count=count): the next entries never
\* delivered to a consumer of the group
Read(w) ==
    /\ wpc[w] = "idle"
    /\ delivered < Len(stream)
    /\ LET n == Min(COUNT, Len(stream) - delivered)
       IN  /\ wbatch' = [wbatch EXCEPT ![w] = [k \in 1..n |-> delivered + k]]
           /\ delivered' = delivered + n
    /\ wpc' = [wpc EXCEPT ![w] = "gate"]
    /\ UNCHANGED <<stream, meta, dlq, idem_store, werr, wtx, budget_states, dbVars, cfgVars, envVars, ledger, now>>

\* faulty variant: every decoded, unmarked message is passed on to be invoked
GateWithoutLookup(w) ==
    /\ wpc[w] = "gate"
    /\ IF decode_envelope(Cur(w)).error # "none"
       THEN /\ meta' = SetResult(meta, Pos(w), "undecodable")
            /\ wpc' = [wpc EXCEPT ![w] = "fatal"]
       ELSE IF already_processed(idem_store, Cur(w))
       THEN /\ meta' = SetResult(meta, Pos(w), "skipped")
            /\ wpc' = [wpc EXCEPT ![w] = "ack"]
       ELSE /\ meta' = meta
            /\ wpc' = [wpc EXCEPT ![w] = "invoke"]
    /\ UNCHANGED <<stream, delivered, dlq, idem_store, wbatch, werr, wtx, budget_states,
                   dbVars, cfgVars, envVars, ledger, now>>

\* decode_envelope, then the idempotency gate and the handler lookup; a message
\* that does not decode goes to the except Exception of run()
Gate(w) ==
    /\ wpc[w] = "gate"
    /\ IF decode_envelope(Cur(w)).error # "none"
       THEN /\ meta' = SetResult(meta, Pos(w), "undecodable")
            /\ wpc' = [wpc EXCEPT ![w] = "fatal"]
       ELSE IF already_processed(idem_store, Cur(w))
       THEN /\ meta' = SetResult(meta, Pos(w), "skipped")
            /\ wpc' = [wpc EXCEPT ![w] = "ack"]
       ELSE IF Cur(w).event_name \notin registry
       THEN /\ meta' = SetResult(meta, Pos(w), "no_handler")
            /\ wpc' = [wpc EXCEPT ![w] = "ack"]
       ELSE /\ meta' = meta
            /\ wpc' = [wpc EXCEPT ![w] = "invoke"]
    /\ UNCHANGED <<stream, delivered, dlq, idem_store, wbatch, werr, wtx, budget_states,
                   dbVars, cfgVars, envVars, ledger, now>>

\* key = f"{envelope.tenant_id}:{envelope.run_id}"
BudgetKey(envelope) == <<envelope.tenant_id, envelope.run_id>>

\* the BudgetState handed to the handler: that of the envelope's key, a new
\* BudgetState() when the key has none yet
WorkerBudgetState(w, envelope) ==
    IF BudgetKey(envelope) \in DOMAIN budget_states[w]
    THEN budget_states[w][BudgetKey(envelope)]
    ELSE BudgetState(0, NoCaps)

\* faulty variant: every write of the handler is committed as it is made
InvokeAutocommit(w) ==
    /\ wpc[w] = "invoke"
    /\ \E envelope \in {Cur(w)} :
       \E eff \in {InvokeHandler(envelope,
                      StartEffect(WorkerBudgetState(w, envelope), Len(stream), Pos(w)))} :
       LET done == eff.outcome = "ok" /\ ~UsesSession(envelope.event_name)
       IN  /\ ledger' = RecordAll(ledger, eff.costs)
           /\ stream' = PublishAll(stream, eff.pubs)
           /\ budget_states' = IF budget = NoBudget THEN budget_states
                               ELSE [budget_states EXCEPT
                                        ![w] = (BudgetKey(envelope) :> eff.spent) @@ @]
           /\ meta' = NewMetas(IF done THEN SetResult(meta, Pos(w), "ok")
                               ELSE IF eff.outcome = "budget" THEN SetResult(meta, Pos(w), "budget")
                               ELSE IF eff.outcome = "error" THEN SetResult(meta, Pos(w), "error")
                               ELSE meta,
                               Len(eff.pubs))
           /\ SetDb(ApplyAll(Db, eff.tx))
           /\ wtx' = [wtx EXCEPT ![w] = <<>>]
           /\ werr' = [werr EXCEPT ![w] = eff.error]
           /\ provider_ops' = LogOps(provider_ops, eff)
           /\ wpc' = [wpc EXCEPT ![w] =
                         IF done THEN "mark"
                         ELSE IF eff.outcome = "ok" THEN "commit"
                         ELSE IF eff.outcome = "budget" THEN "budget_trap"
                         ELSE "failed"]
    /\ UNCHANGED <<delivered, dlq, idem_store, wbatch, worker_failed, campaigns, cfgVars,
                   qtx, restarts, bg, clientVars, now>>

\* the handler body: ledger entries and publishes take effect as they are
\* made, the writes of the transaction wait for the commit
Invoke(w) ==
    /\ wpc[w] = "invoke"
    /\ \E envelope \in {Cur(w)} :
       \E eff \in {InvokeHandler(envelope,
                      StartEffect(WorkerBudgetState(w, envelope), Len(stream), Pos(w)))} :
       LET done == eff.outcome = "ok" /\ ~UsesSession(envelope.event_name)
       IN  /\ ledger' = RecordAll(ledger, eff.costs)
           /\ stream' = PublishAll(stream, eff.pubs)
           /\ budget_states' = IF budget = NoBudget THEN budget_states
                               ELSE [budget_states EXCEPT
                                        ![w] = (BudgetKey(envelope) :> eff.spent) @@ @]
           /\ meta' = NewMetas(IF done THEN SetResult(meta, Pos(w), "ok")
                               ELSE IF eff.outcome = "budget" THEN SetResult(meta, Pos(w), "budget")
                               ELSE IF eff.outcome = "error" THEN SetResult(meta, Pos(w), "error")
                               ELSE meta,
                               Len(eff.pubs))
           /\ wtx' = [wtx EXCEPT ![w] = IF eff.outcome = "ok" THEN eff.tx ELSE <<>>]
           /\ werr' = [werr EXCEPT ![w] = eff.error]
           /\ provider_ops' = LogOps(provider_ops, eff)
           /\ wpc' = [wpc EXCEPT ![w] =
                         IF done THEN "mark"
                         ELSE IF eff.outcome = "ok" THEN "commit"
                         ELSE IF eff.outcome = "budget" THEN "budget_trap"
                         ELSE "failed"]
    /\ UNCHANGED <<delivered, dlq, idem_store, wbatch, dbVars, cfgVars,
                   qtx, restarts, bg, clientVars, now>>

\* session.commit() at the end of the wrapper
Commit(w) ==
    /\ wpc[w] = "commit"
    /\ SetDb(ApplyAll(Db, wtx[w]))
    /\ wtx' = [wtx EXCEPT ![w] = <<>>]
    /\ meta' = SetResult(meta, Pos(w), "ok")
    /\ wpc' = [wpc EXCEPT ![w] = "mark"]
    /\ UNCHANGED <<stream, delivered, dlq, idem_store, wbatch, werr, budget_states,
                   worker_failed, campaigns, cfgVars, envVars, ledger, now>>

\* faulty variant: the success path goes on to the ack without setting the key
MarkNothing(w) ==
    /\ wpc[w] = "mark"
    /\ wpc' = [wpc EXCEPT ![w] = "ack"]
    /\ UNCHANGED <<stream, meta, delivered, dlq, idem_store, wbatch, werr, wtx,
                   budget_states, dbVars, cfgVars, envVars, ledger, now>>

\* mark_processed after the handler returned
Mark(w) ==
    /\ wpc[w] = "mark"
    /\ idem_store' = mark_processed(idem_store, Cur(w))
    /\ wpc' = [wpc EXCEPT ![w] = "ack"]
    /\ UNCHANGED <<stream, meta, delivered, dlq, wbatch, werr, wtx, budget_states,
                   dbVars, cfgVars, envVars, ledger, now>>

NextMessage(w) ==
    /\ werr' = [werr EXCEPT ![w] = "none"]
    /\ wbatch' = [wbatch EXCEPT ![w] = Tail(@)]
    /\ wpc' = [wpc EXCEPT ![w] = IF Tail(wbatch[w]) = <<>> THEN "idle" ELSE "gate"]

\* xack at the end of each branch of _process_message
Ack(w) ==
    /\ wpc[w] = "ack"
    /\ meta' = [meta EXCEPT ![Pos(w)].acked = TRUE]
    /\ NextMessage(w)
    /\ UNCHANGED <<stream, delivered, dlq, idem_store, wtx, budget_states,
                   dbVars, cfgVars, envVars, ledger, now>>

\* faulty variant: the budget trap also dead-letters the envelope
BudgetTrapDeadLetters(w) ==
    /\ wpc[w] = "budget_trap"
    /\ LET run_id == Cur(w).run_id
       IN  /\ runs' = update_status(runs, run_id, "failed", "Budget exceeded", NoResult)
           /\ terminal_writes' = IF run_id \in DOMAIN runs
                                 THEN [terminal_writes EXCEPT ![run_id] = @ + 1]
                                 ELSE terminal_writes
           /\ worker_failed' = IF run_id \in DOMAIN runs
                               THEN worker_failed \cup {run_id} ELSE worker_failed
    /\ dlq' = publish_dlq(dlq, Cur(w), werr[w])
    /\ wpc' = [wpc EXCEPT ![w] = "ack"]
    /\ UNCHANGED <<stream, meta, delivered, idem_store, wbatch, werr, wtx, budget_states,
                   influencers, reservations, receipts, target_cards, contacts, drafts,
                   campaigns, cfgVars, envVars, ledger, now>>

\* except BudgetExceeded: the run row is written to failed in a session of its own
BudgetTrap(w) ==
    /\ wpc[w] = "budget_trap"
    /\ LET run_id == Cur(w).run_id
       IN  /\ runs' = update_status(runs, run_id, "failed", "Budget exceeded", NoResult)
           /\ terminal_writes' = IF run_id \in DOMAIN runs
                                 THEN [terminal_writes EXCEPT ![run_id] = @ + 1]
                                 ELSE terminal_writes
           /\ worker_failed' = IF run_id \in DOMAIN runs
                               THEN worker_failed \cup {run_id} ELSE worker_failed
    /\ wpc' = [wpc EXCEPT ![w] = "ack"]
    /\ UNCHANGED <<busVars, wbatch, werr, wtx, budget_states, influencers, reservations,
                   receipts, target_cards, contacts, drafts, campaigns, cfgVars, envVars, ledger, now>>

\* faulty variant: the retry is republished under a new event_id
RetryNewEventId(w) ==
    /\ wpc[w] = "failed"
    /\ Cur(w).attempt + 1 < MAX_RETRIES
    /\ stream' = publish(stream, [Cur(w) EXCEPT !.attempt = Cur(w).attempt + 1,
                                                !.event_id = FreshEventId(stream)])
    /\ meta' = Append(meta, NewMeta)
    /\ wpc' = [wpc EXCEPT ![w] = "ack"]
    /\ UNCHANGED <<delivered, dlq, idem_store, wbatch, werr, wtx, budget_states,
                   dbVars, cfgVars, envVars, ledger, now>>

\* except Exception, current_attempt < MAX_RETRIES: republish with the attempt bumped
Retry(w) ==
    /\ wpc[w] = "failed"
    /\ Cur(w).attempt + 1 < MAX_RETRIES
    /\ stream' = publish(stream, [Cur(w) EXCEPT !.attempt = Cur(w).attempt + 1])
    /\ meta' = Append(meta, NewMeta)
    /\ wpc' = [wpc EXCEPT ![w] = "ack"]
    /\ UNCHANGED <<delivered, dlq, idem_store, wbatch, werr, wtx, budget_states,
                   dbVars, cfgVars, envVars, ledger, now>>

\* faulty variant: the dead-letter entry carries the attempt of the message
DeadLetterKeepAttempt(w) ==
    /\ wpc[w] = "failed"
    /\ ~(Cur(w).attempt + 1 < MAX_RETRIES)
    /\ dlq' = publish_dlq(dlq, Cur(w), werr[w])
    /\ wpc' = [wpc EXCEPT ![w] = "ack"]
    /\ UNCHANGED <<stream, meta, delivered, idem_store, wbatch, werr, wtx, budget_states,
                   dbVars, cfgVars, envVars, ledger, now>>

\* except Exception, otherwise: the envelope goes to the dead-letter stream
DeadLetter(w) ==
    /\ wpc[w] = "failed"
    /\ ~(Cur(w).attempt + 1 < MAX_RETRIES)
    /\ dlq' = publish_dlq(dlq, [Cur(w) EXCEPT !.attempt = Cur(w).attempt + 1], werr[w])
    /\ wpc' = [wpc EXCEPT ![w] = "ack"]
    /\ UNCHANGED <<stream, meta, delivered, idem_store, wbatch, werr, wtx, budget_states,
                   dbVars, cfgVars, envVars, ledger, now>>

\* bus.publish or bus.publish_dlq raises inside the except branch: the
\* exception leaves _process_message
PublishFails(w) ==
    /\ wpc[w] = "failed"
    /\ meta' = SetResult(meta, Pos(w), "publish_failed")
    /\ wpc' = [wpc EXCEPT ![w] = "fatal"]
    /\ UNCHANGED <<stream, delivered, dlq, idem_store, wbatch, werr, wtx, budget_states,
                   dbVars, cfgVars, envVars, ledger, now>>

\* run(): except Exception around _process_message acks the message
FatalAck(w) ==
    /\ wpc[w] = "fatal"
    /\ meta' = [meta EXCEPT ![Pos(w)].acked = TRUE]
    /\ NextMessage(w)
    /\ UNCHANGED <<stream, delivered, dlq, idem_store, wtx, budget_states,
                   dbVars, cfgVars, envVars, ledger, now>>

----------------------------------------------------------------------------
(* Environment: producers, the orchestrator, the clock *)

RunIdSeq == <<"r1", "r2", "r3">>
CampaignIdSeq == <<"c1", "c2", "c3">>
RunIds == SeqSet(RunIdSeq)
CampaignIds == SeqSet(CampaignIdSeq)
InfluencerIds == 1..2

\* the envelopes producers publish: event name, node and idempotency key
TestEnvelopes == {<<"test.ok", "A", <<"k1">>>>, <<"test.flaky", "A", <<"k1">>>>,
                  <<"test.always_fail", "B", <<"k1">>>>,
                  <<"test.unregistered", "A", <<"k2">>>>}

\* keys a test marks before it publishes (mark_processed called directly)
PreMarked == {<<"idem", "A", <<"k2">>>>}

\* number of envelopes producers have published (retries carry attempt >= 1)
EnvPublished == Cardinality({k \in 1..Len(stream) : stream[k].attempt = 0})

\* what producers publish: the effectful test.ok arrives in duplicate, the
\* others once, and one envelope at most has a handler that fails
Copies(event_name) == IF event_name = "test.ok" THEN 2 ELSE 1

Failing == {"test.flaky", "test.always_fail"}

Published(names, keys) ==
    Cardinality({k \in 1..Len(stream) : /\ stream[k].attempt = 0
                                        /\ stream[k].event_name \in names
                                        /\ stream[k].idempotency_key \in keys})

\* a producer publishes a new envelope: bus.publish(EventEnvelope(...))
Publish(event_name, node, key) ==
    /\ EnvPublished < MaxPublish
    /\ Published({event_name}, {key}) < Copies(event_name)
    /\ event_name \in Failing => Published(Failing, {<<"k1">>, <<"k2">>}) = 0
    /\ stream' = publish(stream, EventEnvelope(FreshEventId(stream), Tenant, node, event_name,
                                               NoPayload, "r1", key, 0))
    /\ meta' = Append(meta, NewMeta)
    /\ UNCHANGED <<delivered, dlq, idem_store, workerVars, dbVars, cfgVars, envVars, ledger, now>>

\* a producer of any tenant publishes a new envelope
PublishAs(tenant_id, event_name, node, key) ==
    /\ EnvPublished < MaxPublish
    /\ stream' = publish(stream, EventEnvelope(FreshEventId(stream), tenant_id, node, event_name,
                                               NoPayload, "r1", key, 0))
    /\ meta' = Append(meta, NewMeta)
    /\ UNCHANGED <<delivered, dlq, idem_store, workerVars, dbVars, cfgVars, envVars, ledger, now>>

\* xadd of a message that is not an encoded envelope: no node, or a tenant_id
\* that is not a UUID
GarbageMessages ==
    {[EventEnvelope(0, Tenant, "", "test.ok", NoPayload, "r1", <<"k1">>, 0) EXCEPT !.node = n,
                                                                                  !.tenant_id = t] :
        <<n, t>> \in {<<"", Tenant>>, <<"A", "not-a-uuid">>}}

PublishGarbage(message_data) ==
    /\ EnvPublished < MaxPublish
    /\ \A k \in 1..Len(stream) : decode_envelope(stream[k]).error = "none"
    /\ stream' = Append(stream, [message_data EXCEPT !.event_id = FreshEventId(stream)])
    /\ meta' = Append(meta, NewMeta)
    /\ UNCHANGED <<delivered, dlq, idem_store, workerVars, dbVars, cfgVars, envVars, ledger, now>>


Briefs == [polarity_intent : {"allies"}, query_embedding_id : {"none", "q1", "qx"}]

\* Orchestrator.start_run: run row (running), campaign row, link, commit,
\* publish node_a.brief_finalized
start_run(brief, max_runs) ==
    /\ Cardinality(DOMAIN runs) < max_runs
    /\ LET n == Cardinality(DOMAIN runs) + 1
           run_id == RunIdSeq[n]
           campaign_id == CampaignIdSeq[n]
           row == [tenant_id |-> Tenant, campaign_id |-> campaign_id, status |-> "running",
                   error_message |-> "none", result_json |-> NoResult]
       IN  /\ runs' = [r \in DOMAIN runs \cup {run_id} |-> IF r = run_id THEN row ELSE runs[r]]
           /\ campaigns' = [c \in DOMAIN campaigns \cup {campaign_id} |->
                               IF c = campaign_id THEN brief ELSE campaigns[c]]
           /\ stream' = publish(stream,
                  EventEnvelope(FreshEventId(stream), Tenant, "A", "node_a.brief_finalized",
                      [NoPayload EXCEPT !.campaign_id = campaign_id,
                                        !.query_embedding_id = brief.query_embedding_id],
                      run_id,
                      make_idempotency_key(Tenant, run_id, "A", "node_a.brief_finalized",
                                           <<"brief_finalized">>),
                      0))
           /\ meta' = Append(meta, NewMeta)
    /\ UNCHANGED <<delivered, dlq, idem_store, workerVars, terminal_writes, worker_failed,
                   influencers, reservations, receipts, target_cards, contacts, drafts,
                   cfgVars, envVars, ledger, now>>

\* Orchestrator.start_run in its two steps, as other processes see them:
\* the commit of the run and campaign rows, then the publish
NotStarting == [pc |-> "idle", run_id |-> "none", campaign_id |-> "none", brief |-> "none"]

\* faulty variant: the session is not committed when the envelope is published
StartRunNoCommit(brief, max_runs) ==
    /\ st.pc = "idle"
    /\ Cardinality(DOMAIN runs) < max_runs
    /\ LET n == Cardinality(DOMAIN runs) + 1
       IN  st' = [pc |-> "publish", run_id |-> RunIdSeq[n], campaign_id |-> CampaignIdSeq[n],
                  brief |-> brief]
    /\ UNCHANGED <<busVars, workerVars, dbVars, cfgVars, ledger, now, qtx, restarts, bg, aw, wrun, repo, provider_ops>>

\* create_run(status="running"), create_campaign, link_campaign, session.commit()
StartRunCommit(brief, max_runs) ==
    /\ st.pc = "idle"
    /\ Cardinality(DOMAIN runs) < max_runs
    /\ LET n == Cardinality(DOMAIN runs) + 1
           run_id == RunIdSeq[n]
           campaign_id == CampaignIdSeq[n]
           row == [tenant_id |-> Tenant, campaign_id |-> campaign_id, status |-> "running",
                   error_message |-> "none", result_json |-> NoResult]
       IN  /\ runs' = [r \in DOMAIN runs \cup {run_id} |-> IF r = run_id THEN row ELSE runs[r]]
           /\ campaigns' = [c \in DOMAIN campaigns \cup {campaign_id} |->
                               IF c = campaign_id THEN brief ELSE campaigns[c]]
           /\ st' = [pc |-> "publish", run_id |-> run_id, campaign_id |-> campaign_id,
                     brief |-> brief]
    /\ UNCHANGED <<busVars, workerVars, terminal_writes, worker_failed, influencers,
                   reservations, receipts, target_cards, contacts, drafts, cfgVars, ledger,
                   now, qtx, restarts, bg, aw, wrun, repo, provider_ops>>

\* bus.publish(envelope); return run_id
StartRunPublish ==
    /\ st.pc = "publish"
    /\ stream' = publish(stream,
           EventEnvelope(FreshEventId(stream), Tenant, "A", "node_a.brief_finalized",
               [NoPayload EXCEPT !.campaign_id = st.campaign_id,
                                 !.query_embedding_id = st.brief.query_embedding_id],
               st.run_id,
               make_idempotency_key(Tenant, st.run_id, "A", "node_a.brief_finalized",
                                    <<"brief_finalized">>),
               0))
    /\ meta' = Append(meta, NewMeta)
    /\ st' = NotStarting
    /\ UNCHANGED <<delivered, dlq, idem_store, workerVars, dbVars, cfgVars, ledger, now, qtx,
                   restarts, bg, aw, wrun, repo, provider_ops>>

\* the clock advances by one reservation period
Tick ==
    /\ now < MaxTicks * RESERVATION_DURATION_MINUTES
    /\ now' = now + RESERVATION_DURATION_MINUTES
    /\ UNCHANGED <<busVars, workerVars, dbVars, cfgVars, envVars, ledger>>

----------------------------------------------------------------------------
(* Orchestrator.await_completion *)

\* Orchestrator(bus, max_poll_iterations=...)
max_poll_iterations == 2

NotAwaiting ==
    [pc |-> "idle", run_id |-> "none", iterations |-> 0, polls |-> 0, expired |-> FALSE,
     seen |-> "none", row |-> "none", result |-> [status |-> "none", error_message |-> "none"]]

\* RunRepo.get_by_id: the row, or None for a run that does not exist
\* status = row.get("status") or "pending"
RowStatus(run_id) == IF run_id \in DOMAIN runs THEN runs[run_id].status ELSE "None"

\* _row_to_dossier(..., status=status, error_message=...): the status is the one
\* passed, the message the one passed or else the row's
_row_to_dossier(run_id, status, error_message) ==
    [status |-> status,
     error_message |-> IF error_message # "none" THEN error_message
                       ELSE IF run_id \in DOMAIN runs THEN runs[run_id].error_message
                       ELSE "none"]

\* deadline = time.monotonic() + timeout_s; iterations = 0
AwaitStart(run_id, timeout_s) ==
    /\ aw.pc = "idle"
    /\ aw' = [NotAwaiting EXCEPT !.pc = "polling", !.run_id = run_id, !.expired = timeout_s <= 0]
    /\ UNCHANGED <<busVars, workerVars, dbVars, cfgVars, ledger, now, qtx, restarts, bg, st, wrun, repo, provider_ops>>

\* time.monotonic() reaches the deadline
AwaitDeadline ==
    /\ aw.pc = "polling"
    /\ ~aw.expired
    /\ aw' = [aw EXCEPT !.expired = TRUE]
    /\ UNCHANGED <<busVars, workerVars, dbVars, cfgVars, ledger, now, qtx, restarts, bg, st, wrun, repo, provider_ops>>

\* faulty variant: returns whatever status the row has
AwaitPollAnyStatus ==
    /\ aw.pc = "polling"
    /\ aw.iterations < max_poll_iterations
    /\ ~aw.expired
    /\ LET status == RowStatus(aw.run_id)
       IN  IF status # "None"
           THEN aw' = [aw EXCEPT !.pc = "returned", !.polls = @ + 1, !.seen = status,
                                 !.row = status,
                                 !.result = _row_to_dossier(aw.run_id, status, "none")]
           ELSE aw' = [aw EXCEPT !.iterations = @ + 1, !.polls = @ + 1, !.seen = status,
                                 !.row = status]
    /\ UNCHANGED <<busVars, workerVars, dbVars, cfgVars, ledger, now, qtx, restarts, bg, st, wrun, repo, provider_ops>>

\* one pass of the loop: the deadline test, the read of the row, the return on
\* completed or failed, else the sleep and iterations += 1
AwaitPoll ==
    /\ aw.pc = "polling"
    /\ aw.iterations < max_poll_iterations
    /\ ~aw.expired
    /\ LET status == RowStatus(aw.run_id)
       IN  IF status \in {"completed", "failed"}
           THEN aw' = [aw EXCEPT !.pc = "returned", !.polls = @ + 1, !.seen = status,
                                 !.row = status,
                                 !.result = _row_to_dossier(aw.run_id, status, "none")]
           ELSE aw' = [aw EXCEPT !.iterations = @ + 1, !.polls = @ + 1, !.seen = status,
                                 !.row = status]
    /\ UNCHANGED <<busVars, workerVars, dbVars, cfgVars, ledger, now, qtx, restarts, bg, st, wrun, repo, provider_ops>>

\* the loop is left without a return: the row is read once more, for its
\* campaign and trace only, the result is failed with "await_completion timeout"
AwaitTimeout ==
    /\ aw.pc = "polling"
    /\ aw.iterations >= max_poll_iterations \/ aw.expired
    /\ aw' = [aw EXCEPT !.pc = "returned",
                        !.row = RowStatus(aw.run_id),
                        !.result = _row_to_dossier(aw.run_id, "failed", "await_completion timeout")]
    /\ UNCHANGED <<busVars, workerVars, dbVars, cfgVars, ledger, now, qtx, restarts, bg, st, wrun, repo, provider_ops>>

----------------------------------------------------------------------------
(* Worker.run and Worker.stop *)

\* Worker.__init__: _stop_requested = False; run() not yet called.
\* stopped records that stop() was called since run() was
NotRunning == [pc |-> "new", _stop_requested |-> FALSE, stopped |-> FALSE]

\* a worker in the read loop of run()
InLoop == [NotRunning EXCEPT !.pc = "loop"]

\* run() is called and awaits ensure_group
RunCall(w) ==
    /\ wrun[w].pc = "new"
    /\ wrun' = [wrun EXCEPT ![w].pc = "ensure_group"]
    /\ UNCHANGED <<busVars, workerVars, dbVars, cfgVars, ledger, now, qtx, restarts, bg, aw, st, repo, provider_ops>>

\* ensure_group has returned: processed_count = 0; self._stop_requested = False
RunEnter(w) ==
    /\ wrun[w].pc = "ensure_group"
    /\ wrun' = [wrun EXCEPT ![w].pc = "loop", ![w]._stop_requested = FALSE]
    /\ UNCHANGED <<busVars, workerVars, dbVars, cfgVars, ledger, now, qtx, restarts, bg, aw, st, repo, provider_ops>>

\* while not self._stop_requested: xreadgroup
RunRead(w) ==
    /\ wrun[w].pc = "loop"
    /\ ~wrun[w]._stop_requested
    /\ Read(w)

\* the while test fails between two batches: return processed_count
RunReturn(w) ==
    /\ wrun[w].pc = "loop"
    /\ wpc[w] = "idle"
    /\ wrun[w]._stop_requested
    /\ wrun' = [wrun EXCEPT ![w].pc = "returned"]
    /\ UNCHANGED <<busVars, workerVars, dbVars, cfgVars, ledger, now, qtx, restarts, bg, aw, st, repo, provider_ops>>

\* Worker.stop, called by another task while run() is suspended at an await
Stop(w) ==
    /\ wrun[w].pc \in {"ensure_group", "loop"}
    /\ ~wrun[w].stopped
    /\ wrun' = [wrun EXCEPT ![w]._stop_requested = TRUE, ![w].stopped = TRUE]
    /\ UNCHANGED <<busVars, workerVars, dbVars, cfgVars, ledger, now, qtx, restarts, bg, aw, st, repo, provider_ops>>

----------------------------------------------------------------------------
(* The repositories over the rows of several tenants: RunRepo, CampaignRepo,
   ReservationRepo as called in tests/test_repos_db.py *)

Tables == {"runs", "campaigns", "reservations"}

\* call names the last call, its tenant, and the rows it returned
NewRepo == [rows |-> {}, next_id |-> 1, call |-> [op |-> "none", tenant_id |-> "none", returned |-> {}]]

RepoVarsOnly ==
    UNCHANGED <<busVars, workerVars, dbVars, cfgVars, ledger, now, qtx, restarts, bg, aw, st,
                wrun, provider_ops>>

\* create_run, create_campaign, create_reservation: INSERT with generate_uuid();
\* expired stands for reserved_until < now
RepoCreate(tenant_id, table, expired) ==
    /\ repo.next_id <= MaxRows
    /\ table # "reservations" => ~expired
    /\ LET row == [table |-> table, id |-> repo.next_id, tenant_id |-> tenant_id,
                   status |-> IF table = "runs" THEN "running" ELSE "none", expired |-> expired]
       IN  repo' = [rows |-> repo.rows \cup {row}, next_id |-> repo.next_id + 1,
                    call |-> [op |-> "create", tenant_id |-> tenant_id, returned |-> {}]]
    /\ RepoVarsOnly

\* get_by_id, get_campaign: WHERE tenant_id = :tenant_id AND id = :id
RepoGetById(tenant_id, table, id) ==
    /\ repo' = [repo EXCEPT !.call =
                   [op |-> "get_by_id", tenant_id |-> tenant_id,
                    returned |-> {r \in repo.rows : /\ r.table = table
                                                    /\ r.tenant_id = tenant_id
                                                    /\ r.id = id}]]
    /\ RepoVarsOnly

\* list_active_reservations: WHERE tenant_id = :tenant_id AND reserved_until >= :now
RepoListActive(tenant_id) ==
    /\ repo' = [repo EXCEPT !.call =
                   [op |-> "list_active_reservations", tenant_id |-> tenant_id,
                    returned |-> {r \in repo.rows : /\ r.table = "reservations"
                                                    /\ r.tenant_id = tenant_id
                                                    /\ ~r.expired}]]
    /\ RepoVarsOnly

\* RunRepo.update_status: UPDATE runs ... WHERE tenant_id = :tenant_id AND id = :run_id
RepoUpdateStatus(tenant_id, run_id, status) ==
    /\ repo' = [repo EXCEPT
                   !.rows = {IF r.table = "runs" /\ r.tenant_id = tenant_id /\ r.id = run_id
                             THEN [r EXCEPT !.status = status] ELSE r : r \in repo.rows},
                   !.call = [op |-> "update_status", tenant_id |-> tenant_id, returned |-> {}]]
    /\ RepoVarsOnly

\* faulty variant: DELETE FROM reservations WHERE reserved_until < :now
RepoClearExpiredAllTenants(tenant_id) ==
    /\ repo' = [repo EXCEPT
                   !.rows = {r \in repo.rows : ~(r.table = "reservations" /\ r.expired)},
                   !.call = [op |-> "clear_expired_reservations", tenant_id |-> tenant_id,
                             returned |-> {}]]
    /\ RepoVarsOnly

\* clear_expired_reservations: DELETE FROM reservations
\* WHERE tenant_id = :tenant_id AND reserved_until < :now
RepoClearExpired(tenant_id) ==
    /\ repo' = [repo EXCEPT
                   !.rows = {r \in repo.rows : ~(/\ r.table = "reservations"
                                                 /\ r.tenant_id = tenant_id
                                                 /\ r.expired)},
                   !.call = [op |-> "clear_expired_reservations", tenant_id |-> tenant_id,
                             returned |-> {}]]
    /\ RepoVarsOnly

----------------------------------------------------------------------------
(* budget_guard and the budget part of _record_cost, called on one Budget and
   one BudgetState as in tests/test_budget_guard.py and test_handlers_budget.py *)

GuardProviders == {"firecrawl", "exa"}
\* max_provider_calls={"firecrawl": ...}: exa has no cap
GuardCaps == [p \in {"firecrawl"} |-> MaxProviderCalls]

NewGuard(max_provider_calls) ==
    [max_provider_calls |-> max_provider_calls, state |-> BudgetState(0, NoCaps),
     call |-> [kind |-> "none", before |-> BudgetState(0, NoCaps), cost_delta |-> 0,
               provider |-> "none", calls_delta |-> 0, outcome |-> "none"]]

\* a call of budget_guard on the state: the state is only read
GuardCall(cost_delta, provider, calls_delta) ==
    /\ bg' = [bg EXCEPT !.call =
                 [kind |-> "guard", before |-> bg.state, cost_delta |-> cost_delta,
                  provider |-> provider, calls_delta |-> calls_delta,
                  outcome |-> budget_guard(Budget(budget, bg.max_provider_calls), bg.state,
                                           cost_delta, provider, calls_delta)]]
    /\ UNCHANGED <<busVars, workerVars, dbVars, cfgVars, ledger, now, qtx, restarts, clientVars, provider_ops>>

\* faulty variant: the state is updated before the guard is consulted
RecordCostThenGuard(dollars, provider) ==
    /\ ProviderCalls(bg.state, provider) < MaxCalls
    /\ LET outcome == budget_guard(Budget(budget, bg.max_provider_calls), bg.state,
                                   dollars, provider, 1)
           updated == BudgetState(bg.state.dollars_spent + dollars,
                          [p \in DOMAIN bg.state.provider_calls \cup {provider} |->
                              IF p = provider THEN ProviderCalls(bg.state, p) + 1
                              ELSE bg.state.provider_calls[p]])
       IN  bg' = [bg EXCEPT !.state = updated,
                            !.call = [kind |-> "record", before |-> bg.state,
                                      cost_delta |-> dollars, provider |-> provider,
                                      calls_delta |-> 1, outcome |-> outcome]]
    /\ UNCHANGED <<busVars, workerVars, dbVars, cfgVars, ledger, now, qtx, restarts, clientVars, provider_ops>>

\* _record_cost, budget is not None: budget_guard with calls_delta=1, then
\* dollars_spent += dollars and provider_calls[provider] += 1
RecordCost(dollars, provider) ==
    /\ ProviderCalls(bg.state, provider) < MaxCalls
    /\ LET outcome == budget_guard(Budget(budget, bg.max_provider_calls), bg.state,
                                   dollars, provider, 1)
           updated == BudgetState(bg.state.dollars_spent + dollars,
                          [p \in DOMAIN bg.state.provider_calls \cup {provider} |->
                              IF p = provider THEN ProviderCalls(bg.state, p) + 1
                              ELSE bg.state.provider_calls[p]])
       IN  bg' = [bg EXCEPT !.state = IF outcome = "ok" THEN updated ELSE @,
                            !.call = [kind |-> "record", before |-> bg.state,
                                      cost_delta |-> dollars, provider |-> provider,
                                      calls_delta |-> 1, outcome |-> outcome]]
    /\ UNCHANGED <<busVars, workerVars, dbVars, cfgVars, ledger, now, qtx, restarts, clientVars, provider_ops>>

----------------------------------------------------------------------------
(* tests/test_demo_run_e2e.py: after the run completed, a Stage G envelope is
   published again under a new event_id with the idempotency key of one that
   was handled *)

SameKey(k) == {j \in 1..Len(stream) : /\ stream[j].node = stream[k].node
                                      /\ stream[j].idempotency_key = stream[k].idempotency_key}

\* an entry published after another of the same node and idempotency key
IsDuplicate(k) == \E j \in SameKey(k) : j < k

RepublishG(k) ==
    /\ stream[k].event_name = "node_g.input"
    /\ meta[k].acked
    /\ stream[k].run_id \in DOMAIN runs
    /\ runs[stream[k].run_id].status = "completed"
    /\ Cardinality({j \in 1..Len(stream) : IsDuplicate(j)}) < MaxDuplicates
    /\ stream' = publish(stream, [stream[k] EXCEPT !.event_id = FreshEventId(stream)])
    /\ meta' = Append(meta, NewMeta)
    /\ UNCHANGED <<delivered, dlq, idem_store, workerVars, dbVars, cfgVars, envVars, ledger, now>>

----------------------------------------------------------------------------
(* A worker process that dies between the handler's commit and mark_processed,
   and the delivery of its pending messages to a consumer of the group *)

\* the process dies after the wrapper committed, before the key is set: the
\* message stays pending, the worker's memory (batch, BudgetState) is lost
Crash(w) ==
    /\ wpc[w] = "mark"
    /\ UsesSession(Cur(w).event_name)
    /\ restarts < MaxRestarts
    /\ restarts' = restarts + 1
    /\ wpc' = [wpc EXCEPT ![w] = "idle"]
    /\ wbatch' = [wbatch EXCEPT ![w] = <<>>]
    /\ werr' = [werr EXCEPT ![w] = "none"]
    /\ wtx' = [wtx EXCEPT ![w] = <<>>]
    /\ budget_states' = [budget_states EXCEPT ![w] = NoBudgetStates]
    /\ UNCHANGED <<busVars, dbVars, cfgVars, ledger, now, qtx, bg, clientVars, provider_ops>>

\* delivered entries that are neither acknowledged nor held by a live worker
Pending == {k \in 1..delivered : ~meta[k].acked /\ \A v \in Workers : k \notin SeqSet(wbatch[v])}

\* the pending entries are delivered again
Redeliver(w) ==
    /\ wpc[w] = "idle"
    /\ Pending # {}
    /\ wbatch' = [wbatch EXCEPT ![w] = Take(RowOrder(Pending), COUNT)]
    /\ wpc' = [wpc EXCEPT ![w] = "gate"]
    /\ UNCHANGED <<busVars, werr, wtx, budget_states, dbVars, cfgVars, envVars, ledger, now>>

----------------------------------------------------------------------------
(* reserve_top_influencers_for_review: one database session per caller, one
   transaction per call, PostgreSQL READ COMMITTED: the SELECT reads the rows
   committed when it starts and locks the rows it returns as it reaches them *)

IdleSession == [pc |-> "idle", query_embedding_id |-> "none", limit |-> 0, now |-> 0,
                snapshot |-> {}, selected |-> <<>>, reserved |-> <<>>]

\* influencer rows locked FOR UPDATE by an open transaction
RowsLockedBy(s) ==
    IF qtx[s].pc \in {"insert", "commit"} THEN SeqSet(qtx[s].selected) ELSE {}

\* WHERE clause of the CTE eligible, evaluated on the statement's snapshot
QueryEligible(q, i) ==
    /\ influencers[i].bio_embedding_id # 0
    /\ ~influencers[i].do_not_contact
    /\ influencers[i].cooling_off_until <= q.now
    /\ q.query_embedding_id \in Embeddings
    /\ ~ActiveReservation(q.snapshot, i, q.now)

\* ORDER BY distance, FOR UPDATE OF i SKIP LOCKED, LIMIT :limit
QuerySelected(s) ==
    LET q == qtx[s]
        ordered == SortDesc(RowOrder({i \in DOMAIN influencers : QueryEligible(q, i)}),
                            [i \in DOMAIN influencers |-> influencers[i].similarity])
        locked == UNION {RowsLockedBy(t) : t \in Sessions \ {s}}
    IN  Take(SelectSeq(ordered, LAMBDA i : i \notin locked), q.limit)

\* the call starts: now is taken and the SELECT is sent
QBegin(s, query_embedding_id, limit) ==
    /\ qtx[s].pc = "idle"
    /\ qtx' = [qtx EXCEPT ![s] = [IdleSession EXCEPT !.pc = "select",
                                                     !.query_embedding_id = query_embedding_id,
                                                     !.limit = limit,
                                                     !.now = now,
                                                     !.snapshot = reservations]]
    /\ UNCHANGED <<busVars, workerVars, dbVars, cfgVars, ledger, now, restarts, bg, clientVars, provider_ops>>

\* the SELECT returns its rows, locked; no row selected returns []
QSelect(s) ==
    /\ qtx[s].pc = "select"
    /\ qtx' = [qtx EXCEPT ![s].selected = QuerySelected(s),
                          ![s].pc = IF QuerySelected(s) = <<>> THEN "commit" ELSE "insert"]
    /\ UNCHANGED <<busVars, workerVars, dbVars, cfgVars, ledger, now, restarts, bg, clientVars, provider_ops>>

\* one INSERT INTO reservations per selected row
QInsert(s) ==
    /\ qtx[s].pc = "insert"
    /\ qtx' = [qtx EXCEPT ![s].reserved =
                  [k \in 1..Len(qtx[s].selected) |->
                      [id |-> ReservationId(s, qtx[s].selected[k]), tenant_id |-> Tenant,
                       influencer_id |-> qtx[s].selected[k],
                       reserved_until |-> qtx[s].now + RESERVATION_DURATION_MINUTES,
                       reason |-> "none"]],
                          ![s].pc = "commit"]
    /\ UNCHANGED <<busVars, workerVars, dbVars, cfgVars, ledger, now, restarts, bg, clientVars, provider_ops>>

\* session.begin() exits: the inserted rows are committed, the locks released
QCommit(s) ==
    /\ qtx[s].pc = "commit"
    /\ reservations' = reservations \cup SeqSet(qtx[s].reserved)
    /\ qtx' = [qtx EXCEPT ![s].pc = "done"]
    /\ UNCHANGED <<busVars, workerVars, runs, terminal_writes, worker_failed, influencers,
                   receipts, target_cards, contacts, drafts, campaigns, cfgVars, ledger, now,
                   restarts, bg, clientVars, provider_ops>>

----------------------------------------------------------------------------
(* Initial states *)

Influencer(similarity, polarity_score) ==
    [do_not_contact |-> FALSE, cooling_off_until |-> 0, similarity |-> similarity,
     age_days |-> 0, polarity_score |-> polarity_score, primary_url |-> "url",
     last_pulse_checked_at |-> 0 - 1, recent_embedding_id |-> 0, recent_similarity |-> 0,
     summaries |-> "ok", fresh_similarity |-> 900, bio_embedding_id |-> 1]

EmptyFleet == [i \in {} |-> Influencer(0, 0)]
GoodFleet == [i \in InfluencerIds |-> Influencer(1000 - 10 * i, 10)]
\* one candidate to be pulse-checked, the others critics of an allies campaign
MixedFleet == [i \in InfluencerIds |->
                  IF i = 1 THEN Influencer(990, 10) ELSE Influencer(990, 0 - 10)]
\* one candidate with a fresh cached pulse, the others not to be contacted
CachedFleet == [i \in InfluencerIds |->
                   IF i = 1
                   THEN [Influencer(990, 10) EXCEPT !.last_pulse_checked_at = 0,
                                                    !.recent_embedding_id = 1,
                                                    !.recent_similarity = 900]
                   ELSE [Influencer(990, 10) EXCEPT !.do_not_contact = TRUE]]

\* critics only
CriticsFleet == [i \in InfluencerIds |-> Influencer(990, 0 - i)]
\* one candidate, the others without a bio embedding (bio_embedding_id NULL)
UnembeddedFleet == [i \in InfluencerIds |->
                       IF i = 1 THEN Influencer(990, 10)
                       ELSE [Influencer(990, 10) EXCEPT !.bio_embedding_id = 0]]

InitCommon ==
    /\ stream = <<>>
    /\ meta = <<>>
    /\ delivered = 0
    /\ dlq = <<>>
    /\ wpc = [w \in Workers |-> "idle"]
    /\ wbatch = [w \in Workers |-> <<>>]
    /\ werr = [w \in Workers |-> "none"]
    /\ wtx = [w \in Workers |-> <<>>]
    /\ budget_states = [w \in Workers |-> NoBudgetStates]
    /\ runs = [r \in {} |-> 0]
    /\ campaigns = [c \in {} |-> 0]
    /\ terminal_writes = [r \in RunIds |-> 0]
    /\ worker_failed = {}
    /\ reservations = {}
    /\ receipts = [i \in InfluencerIds |-> 0]
    /\ target_cards = [k \in CampaignIds \X InfluencerIds |-> 0]
    /\ contacts = {}
    /\ drafts = [k \in CampaignIds \X InfluencerIds |-> 0]
    /\ ledger = EmptyBag
    /\ now = 0
    /\ qtx = [s \in Sessions |-> IdleSession]
    /\ restarts = 0
    /\ aw = NotAwaiting
    /\ st = NotStarting
    /\ repo = NewRepo
    /\ provider_ops = {}

\* a worker with the test handlers, no budget
Init ==
    /\ InitCommon
    /\ bg = NewGuard(NoCaps)
    /\ wrun = [w \in Workers |-> InLoop]
    /\ idem_store \in SUBSET PreMarked
    /\ registry = TestEvents
    /\ budget = NoBudget
    /\ influencers = EmptyFleet

Next ==
    \/ \E e \in TestEnvelopes : Publish(e[1], e[2], e[3])
    \/ \E w \in Workers : Read(w)
    \/ \E w \in Workers : Gate(w)
    \/ \E w \in Workers : Invoke(w)
    \/ \E w \in Workers : Mark(w)
    \/ \E w \in Workers : Ack(w)
    \/ \E w \in Workers : Retry(w)
    \/ \E w \in Workers : DeadLetter(w)

Spec == Init /\ [][Next]_vars

\* the same worker when the bus can refuse a publish
NextPubFail ==
    \/ Next
    \/ \E w \in Workers : PublishFails(w)
    \/ \E w \in Workers : FatalAck(w)

SpecPubFail == Init /\ [][NextPubFail]_vars

\* a producer that also writes messages that are not envelopes
InitGarbage ==
    /\ InitCommon
    /\ bg = NewGuard(NoCaps)
    /\ wrun = [w \in Workers |-> InLoop]
    /\ idem_store = {}
    /\ registry = TestEvents
    /\ budget = NoBudget
    /\ influencers = EmptyFleet

NextGarbage ==
    \/ \E message_data \in GarbageMessages : PublishGarbage(message_data)
    \/ \E e \in {"test.ok", "test.always_fail"} : Publish(e, "A", <<"k1">>)
    \/ \E w \in Workers : Read(w)
    \/ \E w \in Workers : Gate(w)
    \/ \E w \in Workers : Invoke(w)
    \/ \E w \in Workers : Mark(w)
    \/ \E w \in Workers : Ack(w)
    \/ \E w \in Workers : Retry(w)
    \/ \E w \in Workers : DeadLetter(w)
    \/ \E w \in Workers : FatalAck(w)

SpecGarbage == InitGarbage /\ [][NextGarbage]_vars

BudgetChoices == {100, 1100, 50000}

\* the pipeline: build_handler_registry, Worker.run(budget=...)
InitRun ==
    /\ InitCommon
    /\ bg = NewGuard(NoCaps)
    /\ wrun = [w \in Workers |-> InLoop]
    /\ idem_store = {}
    /\ registry = PipelineEvents
    /\ budget \in BudgetChoices
    /\ influencers \in {EmptyFleet, GoodFleet}

NextRun ==
    \/ \E brief \in Briefs : start_run(brief, MaxRuns)
    \/ \E w \in RunWorkers : Read(w)
    \/ \E w \in RunWorkers : Gate(w)
    \/ \E w \in RunWorkers : Invoke(w)
    \/ \E w \in RunWorkers : Commit(w)
    \/ \E w \in RunWorkers : Mark(w)
    \/ \E w \in RunWorkers : Ack(w)
    \/ \E w \in RunWorkers : BudgetTrap(w)

SpecRun == InitRun /\ [][NextRun]_vars

\* the pipeline under a Budget with provider caps
PipelineCaps == [p \in {"internal", "mock_llm"} |-> MaxProviderCalls]

InitCaps ==
    /\ InitCommon
    /\ bg \in {NewGuard(NoCaps), NewGuard(PipelineCaps)}
    /\ wrun = [w \in Workers |-> InLoop]
    /\ idem_store = {}
    /\ registry = PipelineEvents
    /\ budget \in BudgetChoices
    /\ influencers = GoodFleet

SpecCaps == InitCaps /\ [][NextRun]_vars

\* producers of two tenants publish test.ok envelopes under keys of their choice
TenantKeys == {<<"k1">>, <<"k2">>}

InitTenants ==
    /\ InitCommon
    /\ bg = NewGuard(NoCaps)
    /\ wrun = [w \in Workers |-> InLoop]
    /\ idem_store = {}
    /\ registry = TestEvents
    /\ budget = NoBudget
    /\ influencers = EmptyFleet

NextTenants ==
    \/ \E tenant_id \in Tenants : \E node \in {"A", "B"} : \E key \in TenantKeys :
           PublishAs(tenant_id, "test.ok", node, key)
    \/ \E w \in Workers : Read(w)
    \/ \E w \in Workers : Gate(w)
    \/ \E w \in Workers : Invoke(w)
    \/ \E w \in Workers : Mark(w)
    \/ \E w \in Workers : Ack(w)

SpecTenants == InitTenants /\ [][NextTenants]_vars

\* the pipeline with a worker that can die before mark_processed
NextRedo ==
    \/ NextRun
    \/ \E w \in RunWorkers : Crash(w)
    \/ \E w \in RunWorkers : Redeliver(w)

SpecRedo == InitRun /\ [][NextRedo]_vars

\* the pipeline with a producer that publishes handled Stage G envelopes again
NextDup ==
    \/ NextRun
    \/ \E k \in 1..Len(stream) : RepublishG(k)

SpecDup == InitRun /\ [][NextDup]_vars

\* two runs of one tenant up to Stage B, with the clock
InitB ==
    /\ InitCommon
    /\ bg = NewGuard(NoCaps)
    /\ wrun = [w \in Workers |-> InLoop]
    /\ idem_store = {}
    /\ registry = {"node_a.brief_finalized", "node_b.input"}
    /\ budget = 50000
    /\ influencers \in {MixedFleet, CachedFleet}

NextB ==
    \/ \E brief \in {b \in Briefs : b.query_embedding_id = "q1"} : start_run(brief, MaxRuns)
    \/ Tick
    \/ \E w \in Workers : Read(w)
    \/ \E w \in Workers : Gate(w)
    \/ \E w \in Workers : Invoke(w)
    \/ \E w \in Workers : Commit(w)
    \/ \E w \in Workers : Mark(w)
    \/ \E w \in Workers : Ack(w)

SpecB == InitB /\ [][NextB]_vars

\* concurrent callers of the reservation query, as tests/test_reservation_atomicity.py
InitQ ==
    /\ InitCommon
    /\ bg = NewGuard(NoCaps)
    /\ wrun = [w \in Workers |-> InLoop]
    /\ idem_store = {}
    /\ registry = {}
    /\ budget = NoBudget
    /\ influencers \in {GoodFleet, MixedFleet, CachedFleet, UnembeddedFleet}

NextQ ==
    \/ \E s \in Sessions : \E e \in {"q1", "missing"} : \E l \in {1, 2} : QBegin(s, e, l)
    \/ \E s \in Sessions : QSelect(s)
    \/ \E s \in Sessions : QInsert(s)
    \/ \E s \in Sessions : QCommit(s)

SpecQ == InitQ /\ [][NextQ]_vars

\* calls of budget_guard and _record_cost on a fresh BudgetState
InitGuard ==
    /\ InitCommon
    /\ idem_store = {}
    /\ registry = {}
    /\ budget \in {0, MaxDollars}
    /\ influencers = EmptyFleet
    /\ bg \in {NewGuard(NoCaps), NewGuard(GuardCaps)}
    /\ wrun = [w \in Workers |-> InLoop]

NextGuard ==
    \/ \E cost_delta, calls_delta \in (0 - 1)..MaxDelta :
           \E provider \in GuardProviders \cup {"none"} :
               GuardCall(cost_delta, provider, calls_delta)
    \/ \E dollars \in 0..MaxDelta : \E provider \in GuardProviders : RecordCost(dollars, provider)

SpecGuard == InitGuard /\ [][NextGuard]_vars

\* the pipeline with few runs
NextSolo ==
    \/ \E brief \in Briefs : start_run(brief, MaxSoloRuns)
    \/ \E w \in RunWorkers : Read(w)
    \/ \E w \in RunWorkers : Gate(w)
    \/ \E w \in RunWorkers : Invoke(w)
    \/ \E w \in RunWorkers : Commit(w)
    \/ \E w \in RunWorkers : Mark(w)
    \/ \E w \in RunWorkers : Ack(w)
    \/ \E w \in RunWorkers : BudgetTrap(w)

\* with a client that awaits one run
NextAwait ==
    \/ NextSolo
    \/ \E run_id \in DOMAIN runs \cup {"r0"} : \E timeout_s \in 0..1 : AwaitStart(run_id, timeout_s)
    \/ AwaitDeadline
    \/ AwaitPoll
    \/ AwaitTimeout

\* a budget that fails the run at its first cost, and one that lets it complete
InitSolo ==
    /\ InitCommon
    /\ bg = NewGuard(NoCaps)
    /\ wrun = [w \in Workers |-> InLoop]
    /\ idem_store = {}
    /\ registry = PipelineEvents
    /\ budget \in {100, 50000}
    /\ influencers = GoodFleet

SpecAwait == InitSolo /\ [][NextAwait]_vars

\* the event loop keeps running the awaiting coroutine: each sleep returns
SpecAwaitFair == SpecAwait /\ WF_vars(AwaitPoll) /\ WF_vars(AwaitTimeout)

\* allies campaigns over influencers some or all of whom are critics
InitAllies ==
    /\ InitCommon
    /\ bg = NewGuard(NoCaps)
    /\ wrun = [w \in Workers |-> InLoop]
    /\ idem_store = {}
    /\ registry = PipelineEvents
    /\ budget \in {100, 50000}
    /\ influencers \in {MixedFleet, CriticsFleet}

SpecAllies == InitAllies /\ [][NextSolo]_vars

\* the pipeline with start_run taken in its two steps
NextStart ==
    \/ \E brief \in Briefs : StartRunCommit(brief, MaxRuns)
    \/ StartRunPublish
    \/ \E w \in RunWorkers : Read(w)
    \/ \E w \in RunWorkers : Gate(w)
    \/ \E w \in RunWorkers : Invoke(w)
    \/ \E w \in RunWorkers : Commit(w)
    \/ \E w \in RunWorkers : Mark(w)
    \/ \E w \in RunWorkers : Ack(w)
    \/ \E w \in RunWorkers : BudgetTrap(w)

SpecStart == InitRun /\ [][NextStart]_vars

\* a worker with the test handlers whose run() is called and stopped
InitStop ==
    /\ InitCommon
    /\ bg = NewGuard(NoCaps)
    /\ wrun = [w \in Workers |-> NotRunning]
    /\ idem_store = {}
    /\ registry = TestEvents
    /\ budget = NoBudget
    /\ influencers = EmptyFleet

NextStop ==
    \/ \E e \in TestEnvelopes : Publish(e[1], e[2], e[3])
    \/ \E w \in RunWorkers : RunCall(w)
    \/ \E w \in RunWorkers : RunEnter(w)
    \/ \E w \in RunWorkers : RunRead(w)
    \/ \E w \in RunWorkers : Gate(w)
    \/ \E w \in RunWorkers : Invoke(w)
    \/ \E w \in RunWorkers : Mark(w)
    \/ \E w \in RunWorkers : Ack(w)
    \/ \E w \in RunWorkers : Retry(w)
    \/ \E w \in RunWorkers : DeadLetter(w)
    \/ \E w \in RunWorkers : Stop(w)
    \/ \E w \in RunWorkers : RunReturn(w)

SpecStop == InitStop /\ [][NextStop]_vars

\* repository calls of two tenants on shared tables
NextRepo ==
    \/ \E t \in Tenants, table \in Tables, expired \in BOOLEAN : RepoCreate(t, table, expired)
    \/ \E t \in Tenants, table \in Tables, id \in 1..MaxRows : RepoGetById(t, table, id)
    \/ \E t \in Tenants : RepoListActive(t)
    \/ \E t \in Tenants, id \in 1..MaxRows, status \in {"completed"} :
           RepoUpdateStatus(t, id, status)
    \/ \E t \in Tenants : RepoClearExpired(t)

SpecRepo == Init /\ [][NextRepo]_vars

\* Stage D alone: a producer publishes node_d.input envelopes, the same one
\* more than once, to a worker that can die before mark_processed
PublishD(influencer_id) ==
    /\ Cardinality({k \in 1..Len(stream) : stream[k].event_name = "node_d.input"}) < MaxPublish
    /\ stream' = publish(stream,
           EventEnvelope(FreshEventId(stream), Tenant, "D", "node_d.input",
               [NoPayload EXCEPT !.campaign_id = CampaignIdSeq[1], !.influencer_id = influencer_id],
               RunIdSeq[1],
               make_idempotency_key(Tenant, RunIdSeq[1], "D", "node_d.input",
                                    <<"profile", influencer_id>>),
               0))
    /\ meta' = Append(meta, NewMeta)
    /\ UNCHANGED <<delivered, dlq, idem_store, workerVars, dbVars, cfgVars, envVars, ledger, now>>

InitD ==
    /\ InitCommon
    /\ bg = NewGuard(NoCaps)
    /\ wrun = [w \in Workers |-> InLoop]
    /\ idem_store = {}
    /\ registry = {"node_d.input"}
    /\ budget = NoBudget
    /\ influencers = GoodFleet

NextD ==
    \/ \E i \in InfluencerIds : PublishD(i)
    \/ \E w \in RunWorkers : Read(w)
    \/ \E w \in RunWorkers : Gate(w)
    \/ \E w \in RunWorkers : Invoke(w)
    \/ \E w \in RunWorkers : Commit(w)
    \/ \E w \in RunWorkers : Mark(w)
    \/ \E w \in RunWorkers : Ack(w)
    \/ \E w \in RunWorkers : Crash(w)
    \/ \E w \in RunWorkers : Redeliver(w)

SpecD == InitD /\ [][NextD]_vars

\* Stage B alone, as tests/test_node_b_pulse_cache.py drives it: a run and a
\* campaign are created and one node_b.input with the wanted limit is
\* published. Each influencer is one of: bio close to the campaign and recent
\* posts close ("pass") or drifted away ("drift"), a provider that raises
\* ("error"), returns nothing ("empty"), posts the embedding provider
\* rejects ("unembeddable"), a pulse checked an hour ago ("cached"), or a
\* pulse checked an hour ago whose embeddings row has no vector ("vectorless").
PulseIds == 1..3
PulseKinds == {"pass", "drift", "error", "empty", "unembeddable", "cached", "vectorless"}

PulseInfluencer(i, kind) ==
    LET row == Influencer(1000 - 10 * i, 10)
    IN  IF kind = "pass" THEN row
        ELSE IF kind = "drift" THEN [row EXCEPT !.fresh_similarity = 100]
        ELSE IF kind = "cached" THEN [row EXCEPT !.last_pulse_checked_at = 0,
                                                 !.recent_embedding_id = 1,
                                                 !.recent_similarity = 900]
        ELSE IF kind = "vectorless"
        THEN [row EXCEPT !.last_pulse_checked_at = 0,
                         !.recent_embedding_id = CHOOSE e \in VectorlessEmbeddings : TRUE]
        ELSE [row EXCEPT !.summaries = kind]

PulseFleets == {[i \in PulseIds |-> PulseInfluencer(i, kinds[i])] : kinds \in [PulseIds -> PulseKinds]}

StartB(limit) ==
    /\ runs = << >>
    /\ LET run_id == RunIdSeq[1]
           campaign_id == CampaignIdSeq[1]
           row == [tenant_id |-> Tenant, campaign_id |-> campaign_id, status |-> "running",
                   error_message |-> "none", result_json |-> NoResult]
       IN  /\ runs' = [r \in {run_id} |-> row]
           /\ campaigns' = [c \in {campaign_id} |->
                               [polarity_intent |-> "allies", query_embedding_id |-> "q1"]]
           /\ stream' = publish(stream,
                  EventEnvelope(FreshEventId(stream), Tenant, "B", "node_b.input",
                      [NoPayload EXCEPT !.campaign_id = campaign_id,
                                        !.query_embedding_id = "q1",
                                        !.limit = limit],
                      run_id,
                      make_idempotency_key(Tenant, run_id, "B", "node_b.input", <<"reserve">>),
                      0))
           /\ meta' = Append(meta, NewMeta)
    /\ UNCHANGED <<delivered, dlq, idem_store, workerVars, terminal_writes, worker_failed,
                   influencers, reservations, receipts, target_cards, contacts, drafts,
                   cfgVars, envVars, ledger, now>>

\* budgets of 0.01, 0.015 and 5 dollars: the first pulse fetch, the second
\* pulse fetch, nothing is over budget
InitPulse ==
    /\ InitCommon
    /\ bg = NewGuard(NoCaps)
    /\ wrun = [w \in Workers |-> InLoop]
    /\ idem_store = {}
    /\ registry = {"node_b.input"}
    /\ budget \in {100, 150, 50000}
    /\ influencers \in PulseFleets

NextPulse ==
    \/ \E limit \in 0..MaxLimit : StartB(limit)
    \/ \E w \in RunWorkers : Read(w)
    \/ \E w \in RunWorkers : Gate(w)
    \/ \E w \in RunWorkers : Invoke(w)
    \/ \E w \in RunWorkers : Commit(w)
    \/ \E w \in RunWorkers : Mark(w)
    \/ \E w \in RunWorkers : Ack(w)
    \/ \E w \in RunWorkers : BudgetTrap(w)

SpecPulse == InitPulse /\ [][NextPulse]_vars

----------------------------------------------------------------------------
(* Properties *)

\* C1: over any interleaving of the workers and any duplicates of a message,
\* at most one handler invocation per (node, idempotency_key) runs to
\* successful completion.
C1_AtMostOnceEffects ==
    \A p, q \in 1..Len(stream) :
        (p # q /\ build_idem_key(stream[p]) = build_idem_key(stream[q]))
            => ~(meta[p].result = "ok" /\ meta[q].result = "ok")

\* C2: with Stage B handlers running concurrently in separate transactions,
\* at no instant do two reservations with reserved_until > now exist for the
\* same (tenant_id, influencer_id).
C2_NoDoubleReservation ==
    \A a, b \in reservations :
        (/\ a.tenant_id = b.tenant_id
         /\ a.influencer_id = b.influencer_id
         /\ a.reserved_until > now
         /\ b.reserved_until > now) => a = b

\* C3: a terminal status (completed or failed) is written to a run row at
\* most once, and the status only moves pending -> running -> completed|failed.
C3_TerminalWrittenOnce ==
    /\ [](\A r \in RunIds : terminal_writes[r] <= 1)
    /\ [][\A r \in DOMAIN runs :
            runs'[r].status # runs[r].status =>
                <<runs[r].status, runs'[r].status>> \in
                    {<<"pending", "running">>, <<"running", "completed">>,
                     <<"running", "failed">>}]_vars

\* C4: once the worker has written a run row to failed because a handler
\* raised BudgetExceeded, the status stays failed and the error_message stays
\* set in every later state.
C4_FailureIsFinal ==
    \A r \in worker_failed :
        runs[r].status = "failed" /\ runs[r].error_message # "none"

\* C5: an envelope with attempt = MAX_RETRIES - 1 whose handler fails with a
\* non-budget error produces exactly one dead-letter entry (present once the
\* message is acked, never more than one) and no further main-stream entry
\* for the same event_id.
C5_ExhaustedGoesToDlqOnce ==
    \A p \in 1..Len(stream) :
        (stream[p].attempt = MAX_RETRIES - 1 /\ meta[p].result = "error") =>
            LET id == stream[p].event_id
                n == Cardinality({k \in 1..Len(dlq) : dlq[k].envelope.event_id = id})
            IN  /\ n <= 1
                /\ (meta[p].acked => n = 1)
                /\ \A q \in 1..Len(stream) : stream[q].event_id = id => q <= p

C5_Witness ==
    \E p \in 1..Len(stream) :
        /\ stream[p].attempt = MAX_RETRIES - 1
        /\ meta[p].result = "error"
        /\ meta[p].acked
        /\ \E k \in 1..Len(dlq) : dlq[k].envelope.event_id = stream[p].event_id

\* C6: for an envelope first published with attempt 0 whose handler raises a
\* non-budget error on every invocation, the main stream only holds entries
\* of that event_id with attempt in 0..MAX_RETRIES-1, one per attempt; the
\* handler is never invoked more than MAX_RETRIES times, and once every
\* entry is acked it has been invoked exactly MAX_RETRIES times and exactly
\* one dead-letter entry exists, carrying attempt = MAX_RETRIES and the error.
C6_RetryTerminates ==
    \A p \in 1..Len(stream) :
        (stream[p].event_name = "test.always_fail" /\ stream[p].attempt = 0) =>
            LET id == stream[p].event_id
                entries == {k \in 1..Len(stream) : stream[k].event_id = id}
                invoked == {k \in entries : meta[k].result = "error"}
                dead == {k \in 1..Len(dlq) : dlq[k].envelope.event_id = id}
            IN  /\ \A k \in entries : stream[k].attempt \in 0..(MAX_RETRIES - 1)
                /\ \A j, k \in entries : stream[j].attempt = stream[k].attempt => j = k
                /\ Cardinality(invoked) <= MAX_RETRIES
                /\ Cardinality(dead) <= 1
                /\ \A k \in dead : /\ dlq[k].envelope.attempt = MAX_RETRIES
                                   /\ dlq[k].error = "Always fails"
                /\ (\A k \in entries : meta[k].acked) =>
                        (Cardinality(invoked) = MAX_RETRIES /\ Cardinality(dead) = 1)

C6_Witness ==
    \E p \in 1..Len(stream) :
        /\ stream[p].event_name = "test.always_fail"
        /\ stream[p].attempt = 0
        /\ \A k \in 1..Len(stream) : stream[k].event_id = stream[p].event_id => meta[k].acked
        /\ Cardinality({k \in 1..Len(stream) : /\ stream[k].event_id = stream[p].event_id
                                               /\ meta[k].result = "error"}) = MAX_RETRIES
        /\ \E k \in 1..Len(dlq) : /\ dlq[k].envelope.event_id = stream[p].event_id
                                  /\ dlq[k].envelope.attempt = MAX_RETRIES

\* C7: when a handler fails with a non-budget error on an envelope with
\* attempt + 1 < MAX_RETRIES, the worker's next step appends exactly one
\* main-stream envelope equal to the original but for attempt = old + 1,
\* with the original not yet acked, the dead-letter stream and the key store
\* untouched; the step after it acks the original and leaves the key store
\* untouched.
C7_RetryRepublishesOnce ==
    [][\A w \in Workers :
          /\ (wpc[w] = "failed" /\ Cur(w).attempt + 1 < MAX_RETRIES /\ wpc'[w] # "failed") =>
                /\ stream' = Append(stream, [Cur(w) EXCEPT !.attempt = Cur(w).attempt + 1])
                /\ dlq' = dlq
                /\ idem_store' = idem_store
                /\ ~meta'[Pos(w)].acked
                /\ wpc'[w] = "ack"
          /\ (wpc[w] = "ack" /\ meta[Pos(w)].result = "error" /\ wpc'[w] # "ack") =>
                /\ meta'[Pos(w)].acked
                /\ stream' = stream
                /\ dlq' = dlq
                /\ idem_store' = idem_store]_vars

C7_Witness ==
    \E p, q \in 1..Len(stream) :
        /\ meta[p].result = "error"
        /\ meta[p].acked
        /\ stream[p].attempt + 1 < MAX_RETRIES
        /\ stream[q] = [stream[p] EXCEPT !.attempt = stream[p].attempt + 1]
        /\ Len(dlq) = 0
        /\ build_idem_key(stream[p]) \notin idem_store

\* C8: when a handler raises BudgetExceeded, the worker's next step writes
\* the run row to failed with the "Budget exceeded" error_message and
\* publishes nothing; the message is then acked, and no other main-stream
\* entry and no dead-letter entry ever carries that event's id.
C8_BudgetExceededFailsRun ==
    /\ [][\A w \in Workers :
            (wpc[w] = "budget_trap" /\ wpc'[w] # "budget_trap") =>
                /\ runs'[Cur(w).run_id].status = "failed"
                /\ runs'[Cur(w).run_id].error_message = "Budget exceeded"
                /\ stream' = stream
                /\ dlq' = dlq
                /\ wpc'[w] = "ack"]_vars
    /\ [](\A p \in 1..Len(stream) :
            meta[p].result = "budget" =>
                /\ \A q \in 1..Len(stream) : stream[q].event_id = stream[p].event_id => q = p
                /\ \A k \in 1..Len(dlq) : dlq[k].envelope.event_id # stream[p].event_id
                /\ (meta[p].acked => stream[p].run_id \in worker_failed)
                /\ \A w \in Workers :
                      (wpc[w] = "ack" /\ Pos(w) = p) => stream[p].run_id \in worker_failed)

C8_Witness ==
    \E p \in 1..Len(stream) :
        /\ meta[p].result = "budget"
        /\ meta[p].acked
        /\ runs[stream[p].run_id].status = "failed"
        /\ runs[stream[p].run_id].error_message = "Budget exceeded"

\* C9: if publishing fails while the worker republishes a retry envelope or
\* writes the dead-letter entry, the consumed message is not acknowledged.
C9_PublishFailureLeavesPending ==
    \A p \in 1..Len(stream) : meta[p].result = "publish_failed" => ~meta[p].acked

\* C10: whenever a run's status becomes completed, the total_cost_dollars
\* written in its result_json equals the sum of dollars over all ledger
\* entries recorded for that run.
C10_TotalCostMatchesLedger ==
    [][\A r \in DOMAIN runs :
          (runs'[r] # runs[r] /\ runs'[r].status = "completed") =>
              runs'[r].result_json.total_cost_dollars = total_dollars(ledger', r)]_vars

\* C11: in every state in which a run's status is failed, no target card row
\* and no draft row exists for that run's campaign.
C11_FailedRunHasNoCardsOrDrafts ==
    \A r \in DOMAIN runs :
        runs[r].status = "failed" =>
            /\ list_target_cards(runs[r].campaign_id) = {}
            /\ count_drafts(runs[r].campaign_id) = 0

\* C12: when the key idem:{node}:{idempotency_key} of a delivered message is
\* in the key store at the gate, the message is skipped: no handler runs,
\* nothing is published, and the next step acks it; a message is skipped
\* only if its key was pre-marked or another message with the same node and
\* idempotency_key succeeded, so a different key or node is never skipped.
C12_MarkedKeySkips ==
    /\ [][\A w \in Workers :
            /\ (wpc[w] = "gate" /\ wpc'[w] # "gate") =>
                  IF <<"idem", Cur(w).node, Cur(w).idempotency_key>> \in idem_store
                  THEN /\ meta'[Pos(w)].result = "skipped"
                       /\ wpc'[w] = "ack"
                       /\ stream' = stream
                       /\ dlq' = dlq
                  ELSE meta'[Pos(w)].result # "skipped"
            /\ (wpc[w] = "ack" /\ meta[Pos(w)].result = "skipped" /\ wpc'[w] # "ack") =>
                  /\ meta'[Pos(w)].acked
                  /\ meta'[Pos(w)].result = "skipped"
                  /\ stream' = stream
                  /\ dlq' = dlq]_vars
    /\ [](\A p \in 1..Len(stream) :
            meta[p].result = "skipped" =>
                \/ <<"idem", stream[p].node, stream[p].idempotency_key>> \in PreMarked
                \/ \E q \in 1..Len(stream) :
                      /\ q # p
                      /\ stream[q].node = stream[p].node
                      /\ stream[q].idempotency_key = stream[p].idempotency_key
                      /\ meta[q].result = "ok")

C12_Witness ==
    \E p, q \in 1..Len(stream) :
        /\ meta[p].result = "skipped"
        /\ meta[p].acked
        /\ meta[q].result = "ok"
        /\ stream[q].event_id # stream[p].event_id
        /\ stream[q].event_name # stream[p].event_name
        /\ stream[q].node = stream[p].node
        /\ stream[q].idempotency_key = stream[p].idempotency_key

\* C13: on handler success the worker first adds the message's key to the
\* key store, with the message still unacked, and acks in the next step;
\* every message acked after a successful invocation has its key in the
\* store, and the key store changes only in that step of a worker whose
\* handler returned, never for an invocation that raised.
C13_MarkThenAck ==
    /\ [][/\ \A w \in Workers :
                (wpc[w] = "mark" /\ wpc'[w] # "mark") =>
                    /\ idem_store' = idem_store \cup
                           {<<"idem", Cur(w).node, Cur(w).idempotency_key>>}
                    /\ ~meta[Pos(w)].acked
                    /\ ~meta'[Pos(w)].acked
                    /\ wpc'[w] = "ack"
          /\ idem_store' # idem_store =>
                \E w \in Workers : /\ wpc[w] = "mark"
                                   /\ wpc'[w] = "ack"
                                   /\ meta[Pos(w)].result = "ok"]_vars
    /\ [](/\ \A p \in 1..Len(stream) :
                (meta[p].result = "ok" /\ meta[p].acked) =>
                    <<"idem", stream[p].node, stream[p].idempotency_key>> \in idem_store
          /\ \A w \in Workers :
                (wpc[w] # "idle" /\ meta[Pos(w)].result \in {"error", "budget"}) =>
                    wpc[w] \in {"failed", "budget_trap", "ack"})

C13_Witness ==
    /\ \E p \in 1..Len(stream) :
          /\ meta[p].result = "ok"
          /\ meta[p].acked
          /\ <<"idem", stream[p].node, stream[p].idempotency_key>> \in idem_store
    /\ \E p \in 1..Len(stream) :
          /\ meta[p].result = "error"
          /\ meta[p].acked
          /\ <<"idem", stream[p].node, stream[p].idempotency_key>> \notin idem_store


\* C14: two concurrent calls of reserve_top_influencers_for_review for the same
\* tenant and query embedding never reserve the same influencer: the returned
\* influencer sets are disjoint, and the reservations made in total do not
\* exceed the number of eligible influencers.
C14_ConcurrentQueriesDisjoint ==
    LET returned(s) == {qtx[s].reserved[k].influencer_id : k \in 1..Len(qtx[s].reserved)}
        eligible == {i \in DOMAIN influencers :
                        ~influencers[i].do_not_contact /\ influencers[i].cooling_off_until <= now}
        made == UNION {SeqSet(qtx[s].reserved) : s \in Sessions}
    IN  /\ \A s, t \in Sessions :
               (s # t /\ qtx[s].query_embedding_id = qtx[t].query_embedding_id)
                   => returned(s) \cap returned(t) = {}
        /\ Cardinality(made) <= Cardinality(eligible)


\* C15: a handler invocation is all-or-nothing on the database. While the
\* handler runs no table changes; when it raises (BudgetExceeded after rows were
\* inserted included) its transaction is dropped, and no row it wrote is visible
\* then or later; when it returns, the commit applies all its writes in one step.
C15_InvocationAllOrNothing ==
    /\ [][\A w \in Workers :
            /\ (wpc[w] = "invoke" /\ wpc'[w] # "invoke") => Db' = Db
            /\ (wpc[w] = "invoke" /\ wpc'[w] \in {"budget_trap", "failed"}) => wtx'[w] = <<>>
            /\ (wpc[w] = "commit" /\ wpc'[w] # "commit") => Db' = ApplyAll(Db, wtx[w])]_vars
    /\ [](\A w \in Workers :
            wpc[w] \in {"budget_trap", "failed"} =>
                LET e == Cur(w)
                    k == <<e.payload.campaign_id, e.payload.influencer_id>>
                IN  /\ e.event_name = "node_f.input" => drafts[k] = 0
                    /\ e.event_name = "node_d.input" => target_cards[k] = 0
                    /\ e.event_name = "node_b.input" =>
                           \A r \in reservations :
                               \A i \in DOMAIN influencers : r.id # ReservationId(Pos(w), i))

\* Stage F raised BudgetExceeded after inserting its draft: the draft is not there
C15_Witness ==
    \E w \in Workers :
        /\ wpc[w] = "budget_trap"
        /\ Cur(w).event_name = "node_f.input"
        /\ drafts[<<Cur(w).payload.campaign_id, Cur(w).payload.influencer_id>>] = 0


\* C16: handler effects are idempotent under redo. When a handler's transaction
\* committed, the worker died before the idempotency key was set and the
\* envelope is delivered and handled again, the commit of the second execution
\* leaves the receipts, target cards, contact methods and drafts as the first
\* execution left them, and the run's counts unchanged.
C16_RedoIsIdempotent ==
    [][\A w \in Workers :
          (wpc[w] = "commit" /\ meta[Pos(w)].result = "ok" /\ wpc'[w] = "mark") =>
              /\ receipts' = receipts
              /\ target_cards' = target_cards
              /\ contacts' = contacts
              /\ drafts' = drafts
              /\ \A r \in DOMAIN runs : runs'[r].result_json = runs[r].result_json]_vars


\* C17: after a run has completed, a Stage G envelope published again with the
\* idempotency key of one that was handled does not invoke handler G again: the
\* copy is skipped at the gate, and handling it leaves the run row, with its
\* target_cards_count and drafts_count, unchanged.
C17_RepublishedTerminalSkipped ==
    /\ [](\A k \in 1..Len(stream) :
            IsDuplicate(k) =>
                /\ meta[k].result \in {"new", "skipped"}
                /\ \A w \in Workers :
                       (wbatch[w] # <<>> /\ Pos(w) = k) => wpc[w] \in {"gate", "ack"})
    /\ [][\A w \in Workers :
            (wbatch[w] # <<>> /\ IsDuplicate(Pos(w)) /\ wpc'[w] # wpc[w]) =>
                /\ runs' = runs
                /\ ledger' = ledger
                /\ stream' = stream]_vars

\* a republished Stage G envelope was skipped and acknowledged; the run keeps its counts
C17_Witness ==
    \E k \in 1..Len(stream) :
        /\ IsDuplicate(k)
        /\ stream[k].event_name = "node_g.input"
        /\ meta[k].acked
        /\ meta[k].result = "skipped"
        /\ runs[stream[k].run_id].status = "completed"
        /\ runs[stream[k].run_id].result_json.target_cards_count = 2
        /\ runs[stream[k].run_id].result_json.drafts_count = 2


\* C18: for non-negative deltas budget_guard raises BudgetExceeded exactly when
\* dollars_spent + cost_delta > max_dollars, or provider_calls[p] + calls_delta
\* > max_provider_calls[p] for a provider p with a configured cap; a delta that
\* reaches a limit exactly passes, a provider without a cap is never limited,
\* and a negative cost_delta or calls_delta is rejected.
C18_GuardExact ==
    bg.call.kind # "none" =>
        LET c == bg.call
            caps == bg.max_provider_calls
            over_dollars == c.before.dollars_spent + c.cost_delta > budget
            over_calls == /\ c.provider \in DOMAIN caps
                          /\ ProviderCalls(c.before, c.provider) + c.calls_delta > caps[c.provider]
        IN  IF c.cost_delta < 0 \/ c.calls_delta < 0
            THEN c.outcome \notin {"ok"} \cup BudgetExceeded
            ELSE /\ c.outcome \in BudgetExceeded <=> (over_dollars \/ over_calls)
                 /\ c.outcome \notin BudgetExceeded => c.outcome = "ok"

\* a call that reached the dollar limit and the provider cap exactly has passed
C18_Witness ==
    /\ bg.call.kind = "guard"
    /\ bg.call.outcome = "ok"
    /\ bg.call.cost_delta > 0
    /\ bg.call.before.dollars_spent + bg.call.cost_delta = budget
    /\ bg.call.provider \in DOMAIN bg.max_provider_calls
    /\ bg.call.calls_delta > 0
    /\ ProviderCalls(bg.call.before, bg.call.provider) + bg.call.calls_delta
           = bg.max_provider_calls[bg.call.provider]


\* C19: the budget guard is purely functional. A call of budget_guard leaves
\* the BudgetState as it was; when _record_cost raises BudgetExceeded,
\* dollars_spent and provider_calls are exactly what they were before the call;
\* the state changes only in a _record_cost whose guard passed, by the cost and
\* one call of the provider.
C19_GuardLeavesState ==
    /\ [](LET c == bg.call
          IN  /\ c.kind = "guard" => bg.state = c.before
              /\ (c.kind = "record" /\ c.outcome # "ok") => bg.state = c.before
              /\ (c.kind = "record" /\ c.outcome = "ok") =>
                     /\ bg.state.dollars_spent = c.before.dollars_spent + c.cost_delta
                     /\ \A p \in GuardProviders :
                            ProviderCalls(bg.state, p) =
                                ProviderCalls(c.before, p) + (IF p = c.provider THEN 1 ELSE 0))
    /\ [][bg'.state # bg.state =>
              (bg'.call.kind = "record" /\ bg'.call.outcome = "ok" /\ bg'.call.before = bg.state)]_vars

\* _record_cost raised BudgetExceeded on a state that had spending and calls: both are kept
C19_Witness ==
    /\ bg.call.kind = "record"
    /\ bg.call.outcome \in BudgetExceeded
    /\ bg.call.before.dollars_spent > 0
    /\ ProviderCalls(bg.call.before, bg.call.provider) > 0
    /\ bg.state = bg.call.before


\* C20: a stream message that does not decode into an envelope is acknowledged
\* and dropped: no handler is invoked for it, it is not retried, nothing is
\* published for it to the main or the dead-letter stream, and the worker goes
\* on to the next message of its batch.
C20_UndecodableAckedAndDropped ==
    /\ [](\A k \in 1..Len(stream) :
            [stream[k] EXCEPT !.event_id = 0] \in GarbageMessages =>
                /\ meta[k].result \in {"new", "undecodable"}
                /\ \A w \in Workers :
                       (wbatch[w] # <<>> /\ Pos(w) = k) => wpc[w] \in {"gate", "fatal"}
                /\ \A j \in 1..Len(stream) : stream[j].event_id = stream[k].event_id => j = k
                /\ \A j \in 1..Len(dlq) : dlq[j].envelope.event_id # stream[k].event_id)
    /\ [][\A w \in Workers :
            (/\ wbatch[w] # <<>>
             /\ [Cur(w) EXCEPT !.event_id = 0] \in GarbageMessages
             /\ wpc'[w] # wpc[w]) =>
                /\ stream' = stream
                /\ dlq' = dlq
                /\ idem_store' = idem_store
                /\ ledger' = ledger
                /\ wpc[w] = "fatal" =>
                       /\ meta'[Pos(w)].acked
                       /\ wbatch'[w] = Tail(wbatch[w])
                       /\ wpc'[w] = IF Tail(wbatch[w]) = <<>> THEN "idle" ELSE "gate"]_vars

\* the first message of a batch did not decode and is acknowledged; the worker
\* is at the next message of the batch
C20_Witness ==
    \E w \in Workers :
        /\ Len(stream) = 2
        /\ [stream[1] EXCEPT !.event_id = 0] \in GarbageMessages
        /\ meta[1].result = "undecodable"
        /\ meta[1].acked
        /\ wbatch[w] = <<2>>
        /\ wpc[w] = "gate"
        /\ \A v \in Workers \ {w} : wpc[v] = "idle"
        /\ Len(dlq) = 0


\* C21: a message whose event_name has no registered handler is acknowledged
\* without invoking anything: it is not republished and not dead-lettered, no
\* run row changes, and its idempotency key is not set by handling it.
C21_NoHandlerAcked ==
    /\ [](\A k \in 1..Len(stream) :
            (stream[k].event_name \notin registry /\ decode_envelope(stream[k]).error = "none") =>
                /\ meta[k].result \in {"new", "skipped", "no_handler"}
                /\ meta[k].result = "no_handler" => build_idem_key(stream[k]) \notin idem_store
                /\ \A w \in Workers :
                       (wbatch[w] # <<>> /\ Pos(w) = k) => wpc[w] \in {"gate", "ack"}
                /\ \A j \in 1..Len(stream) : stream[j].event_id = stream[k].event_id => j = k
                /\ \A j \in 1..Len(dlq) : dlq[j].envelope.event_id # stream[k].event_id)
    /\ [][\A w \in Workers :
            (wbatch[w] # <<>> /\ Cur(w).event_name \notin registry /\ wpc'[w] # wpc[w]) =>
                /\ stream' = stream
                /\ dlq' = dlq
                /\ idem_store' = idem_store
                /\ runs' = runs
                /\ ledger' = ledger
                /\ wpc[w] = "ack" => meta'[Pos(w)].acked]_vars

\* a message without a handler was acknowledged; its key is not in the store
C21_Witness ==
    \E k \in 1..Len(stream) :
        /\ stream[k].event_name \notin registry
        /\ meta[k].result = "no_handler"
        /\ meta[k].acked
        /\ build_idem_key(stream[k]) \notin idem_store


C23_RowsBeforeEvent ==
    /\ [](\A k \in 1..Len(stream) :
            stream[k].event_name = "node_a.brief_finalized" =>
                /\ stream[k].run_id \in DOMAIN runs
                /\ stream[k].payload.campaign_id \in DOMAIN campaigns
                /\ runs[stream[k].run_id].campaign_id = stream[k].payload.campaign_id)
    /\ [](\A r \in RunIds :
            LET n == Cardinality({k \in 1..Len(stream) :
                        stream[k].event_name = "node_a.brief_finalized" /\ stream[k].run_id = r})
            IN  /\ n <= 1
                /\ n = 1 <=> (r \in DOMAIN runs /\ ~(st.pc = "publish" /\ st.run_id = r)))
    /\ [][/\ (st.pc = "idle" /\ st'.pc = "publish") =>
                /\ stream' = stream
                /\ st'.run_id \notin DOMAIN runs
                /\ st'.run_id \in DOMAIN runs'
                /\ runs'[st'.run_id].status = "running"
                /\ runs'[st'.run_id].campaign_id = st'.campaign_id
                /\ st'.campaign_id \in DOMAIN campaigns' \ DOMAIN campaigns
                /\ campaigns'[st'.campaign_id] = st'.brief
          /\ (st.pc = "publish" /\ st'.pc = "idle") =>
                /\ runs' = runs /\ campaigns' = campaigns
                /\ Len(stream') = Len(stream) + 1
                /\ LET e == stream'[Len(stream')]
                   IN  /\ e.event_name = "node_a.brief_finalized"
                       /\ e.node = "A"
                       /\ e.attempt = 0
                       /\ e.run_id = st.run_id
                       /\ e.idempotency_key[5] = <<"brief_finalized">>
                       /\ e.payload.campaign_id = st.campaign_id
                       /\ e.payload.query_embedding_id = st.brief.query_embedding_id]_vars

C23_Witness ==
    /\ st.pc = "publish"
    /\ \E w \in Workers :
           /\ wpc[w] = "invoke"
           /\ Cur(w).event_name = "node_a.brief_finalized"
           /\ Cur(w).run_id \in DOMAIN runs

\* C24: once stop() has been called on a worker whose run() was called, at any
\* time from that call on, run() reads no further batch and, with no batch in
\* hand, is not left in its loop with the request forgotten.
C24_StopEndsReadLoop ==
    [][\A w \in Workers :
          wrun[w].stopped =>
              /\ ~(wbatch[w] = <<>> /\ wbatch'[w] # <<>>)
              /\ wrun'[w].pc = "loop" => wrun'[w]._stop_requested]_vars

\* C25: whatever repository calls the tenants make, a read issued for a tenant
\* returns only rows of that tenant, and a call issued for a tenant changes or
\* deletes no row of another tenant.
C25_TenantIsolation ==
    /\ [](\A r \in repo.call.returned : r.tenant_id = repo.call.tenant_id)
    /\ [][\A r \in repo.rows : r.tenant_id # repo'.call.tenant_id => r \in repo'.rows]_vars

C25_Witness ==
    /\ repo.call.op = "clear_expired_reservations"
    /\ \E r \in repo.rows : r.table = "reservations" /\ r.expired /\ r.tenant_id # repo.call.tenant_id
    /\ \A r \in repo.rows : r.table = "reservations" => r.tenant_id # repo.call.tenant_id
    /\ Cardinality(repo.rows) = 1

\* C26: after any executions of Stage D, among them the second execution of an
\* envelope delivered again, each (campaign, influencer) has at most one target
\* card row: inserting for a key that has a row leaves it with that one row.
C26_OneCardPerKey ==
    /\ [](\A k \in DOMAIN target_cards : target_cards[k] <= 1)
    /\ [][\A k \in DOMAIN target_cards : target_cards[k] = 1 => target_cards'[k] = 1]_vars

\* Stage D committed twice for one envelope, its key has its card
C26_Witness ==
    \E k \in 1..Len(stream) :
        /\ stream[k].event_name = "node_d.input"
        /\ meta[k].acked
        /\ restarts = 1
        /\ target_cards[<<stream[k].payload.campaign_id, stream[k].payload.influencer_id>>] = 1
        /\ CopiesIn(CostEntry(stream[k], "D", "mock_llm", "profile", 100), ledger) >
               Cardinality({stream[j].payload.influencer_id :
                               j \in {n \in 1..Len(stream) : stream[n].event_name = "node_d.input"}})

\* C27: reserve_top_influencers_for_review inserts no reservation for an
\* influencer that is do_not_contact, is cooling off, has no bio embedding, or
\* has an active reservation when the row is inserted; a call that selects no
\* influencer returns [] and leaves the reservations table as it was.
C27_QueryReservesOnlyEligible ==
    [][\A s \in Sessions :
          /\ (qtx[s].pc = "insert" /\ qtx'[s].pc = "commit") =>
                \A k \in 1..Len(qtx'[s].reserved) :
                    LET i == qtx'[s].reserved[k].influencer_id
                    IN  /\ ~influencers[i].do_not_contact
                        /\ influencers[i].cooling_off_until <= qtx[s].now
                        /\ influencers[i].bio_embedding_id # 0
                        /\ ~ActiveReservation(reservations, i, qtx[s].now)
          /\ (qtx[s].pc = "commit" /\ qtx'[s].pc = "done" /\ qtx[s].selected = <<>>) =>
                /\ qtx[s].reserved = <<>>
                /\ reservations' = reservations]_vars

\* C28: in an allies campaign Stage B makes no reservation and publishes no
\* directive for an influencer of negative polarity score, and when every
\* candidate of the prefilter is one, a Stage B that returned has left the run
\* completed with zero targets.
C28_AlliesExcludeCritics ==
    /\ \A r \in reservations : influencers[r.influencer_id].polarity_score >= 0
    /\ \A w \in Workers : \A k \in 1..Len(wtx[w]) :
           wtx[w][k].op = "insert_reservation" =>
               influencers[wtx[w][k].row.influencer_id].polarity_score >= 0
    /\ \A k \in 1..Len(stream) :
           /\ stream[k].event_name = "node_b.directive_emitted" =>
                  influencers[stream[k].payload.influencer_id].polarity_score >= 0
           /\ (/\ stream[k].event_name = "node_b.input"
               /\ meta[k].result = "ok" /\ meta[k].acked
               /\ stream[k].payload.query_embedding_id \in Embeddings
               /\ \A i \in DOMAIN influencers : influencers[i].polarity_score < 0) =>
                  /\ runs[stream[k].run_id].status = "completed"
                  /\ runs[stream[k].run_id].result_json.target_cards_count = 0

C28_Witness ==
    /\ influencers = CriticsFleet
    /\ \E k \in 1..Len(stream) :
           /\ stream[k].event_name = "node_b.input"
           /\ meta[k].result = "ok" /\ meta[k].acked
           /\ stream[k].payload.query_embedding_id \in Embeddings
           /\ runs[stream[k].run_id].status = "completed"

----------------------------------------------------------------------------
(* A run whose event is dead-lettered *)

\* _make_wrapper: db_session() or a statement of the handler raises (the
\* database is unreachable) before the handler has recorded or published
\* anything; _process_message catches it in except Exception. The outage
\* strikes the attempts of one event only.
DbSessionRaises(w) ==
    /\ wpc[w] = "invoke"
    /\ UsesSession(Cur(w).event_name)
    /\ \A k \in 1..Len(stream) :
           meta[k].result = "error" => stream[k].idempotency_key = Cur(w).idempotency_key
    /\ meta' = SetResult(meta, Pos(w), "error")
    /\ werr' = [werr EXCEPT ![w] = "OperationalError"]
    /\ wpc' = [wpc EXCEPT ![w] = "failed"]
    /\ UNCHANGED <<stream, delivered, dlq, idem_store, wbatch, wtx, budget_states,
                   dbVars, cfgVars, envVars, ledger, now>>

NextFault ==
    \/ NextSolo
    \/ \E w \in RunWorkers : DbSessionRaises(w)
    \/ \E w \in RunWorkers : Retry(w)
    \/ \E w \in RunWorkers : DeadLetter(w)

SpecFault == InitSolo /\ [][NextFault]_vars

\* the worker's loop keeps running: every step of _process_message that is
\* waiting is taken and every handler call ends, by returning or by raising;
\* nothing obliges the database to fail or to recover
SpecFaultFair ==
    /\ SpecFault
    /\ \A w \in RunWorkers :
          /\ WF_vars(Read(w))
          /\ WF_vars(Gate(w))
          /\ []<>(wpc[w] # "invoke")
          /\ WF_vars(Commit(w))
          /\ WF_vars(Mark(w))
          /\ WF_vars(Ack(w))
          /\ WF_vars(BudgetTrap(w))
          /\ WF_vars(Retry(w))
          /\ WF_vars(DeadLetter(w))

\* C29: while the worker keeps taking its steps, every run created by
\* start_run eventually has status completed or failed, also when the handler
\* of one of its events raises on every attempt and the event is dead-lettered.
C29_EveryRunTerminates ==
    \A r \in RunIds :
        (r \in DOMAIN runs) ~> (r \in DOMAIN runs /\ runs[r].status \in {"completed", "failed"})

----------------------------------------------------------------------------
(* What the run row says when it first shows completed *)

SpecSolo == InitSolo /\ [][NextSolo]_vars

\* C30: at the commit that first makes a run's row show completed, every
\* event of the run other than the one being committed is acknowledged, the
\* target_cards_count and drafts_count written to result_json are the numbers
\* of target cards and drafts of the campaign, and those numbers do not change
\* once the row shows completed.
C30_CompletedAfterAllEvents ==
    [][\A r \in DOMAIN runs :
          LET campaign_id == runs[r].campaign_id
          IN  /\ (runs[r].status # "completed" /\ runs'[r].status = "completed") =>
                    /\ \A k \in 1..Len(stream') :
                          stream'[k].run_id = r =>
                              \/ meta'[k].acked
                              \/ \E w \in Workers :
                                     wpc[w] = "commit" /\ wpc'[w] = "mark" /\ Pos(w) = k
                    /\ runs'[r].result_json.target_cards_count
                           = Cardinality(list_target_cards(campaign_id))'
                    /\ runs'[r].result_json.drafts_count = count_drafts(campaign_id)'
              /\ runs[r].status = "completed" =>
                    /\ list_target_cards(campaign_id)' = list_target_cards(campaign_id)
                    /\ count_drafts(campaign_id)' = count_drafts(campaign_id)]_vars

----------------------------------------------------------------------------
(* Events and the transaction that published them *)

\* C31: every node_b.directive_emitted event on the main stream carries the
\* reservation_id of a reservation row that is committed.
C31_DirectiveCitesCommittedReservation ==
    \A k \in 1..Len(stream) :
        stream[k].event_name = "node_b.directive_emitted" =>
            \E r \in reservations : r.id = stream[k].payload.reservation_id

\* C32: when a Stage B invocation has ended with no reserved candidate passing
\* the pulse check (cache_miss: it reserved candidates and emitted no
\* directive), the stream holds one node_c.discovery_needed event of the run,
\* whose needed_count is the desired count.
C32_CacheMissEmitsDiscovery ==
    \A k \in 1..Len(stream) :
        (/\ stream[k].event_name = "node_b.input"
         /\ meta[k].result = "ok"
         /\ \E r \in reservations : \E c \in DOMAIN influencers : r.id = ReservationId(k, c)
         /\ ~\E j \in 1..Len(stream) : /\ stream[j].event_name = "node_b.directive_emitted"
                                       /\ stream[j].run_id = stream[k].run_id)
        => LET needed == {j \in 1..Len(stream) :
                             /\ stream[j].event_name = "node_c.discovery_needed"
                             /\ stream[j].run_id = stream[k].run_id}
           IN  /\ Cardinality(needed) = 1
               /\ \A j \in needed : stream[j].payload.limit = stream[k].payload.limit

\* C33: every pulse provider or embedding provider call that was made comes
\* after a budget guard evaluation that accepted the cost of that operation
\* for that influencer in the same invocation, and no operation whose cost the
\* guard rejected was carried out.
C33_GuardBeforeOperation ==
    /\ \A c \in provider_ops :
           c.kind = "call" =>
               \E g \in provider_ops : /\ g.kind = "guard_ok"
                                       /\ g.pos = c.pos
                                       /\ g.operation = c.operation
                                       /\ g.influencer_id = c.influencer_id
                                       /\ g.seq < c.seq
    /\ \A g \in provider_ops :
           g.kind = "guard_raise" =>
               ~\E c \in provider_ops : /\ c.kind = "call"
                                        /\ c.pos = g.pos
                                        /\ c.operation = g.operation
                                        /\ c.influencer_id = g.influencer_id

\* C34: with one worker and a budget, the dollars of the ledger entries
\* recorded for a run never sum to more than budget.max_dollars.
C34_LedgerWithinBudget ==
    budget # NoBudget => \A r \in DOMAIN runs : total_dollars(ledger, r) <= budget

\* place of an influencer in the MMS-descending order of an allies campaign
\* (ties in table order, as the stable sort leaves them)
MmsRank(c) ==
    Cardinality({i \in DOMAIN influencers :
                    \/ CandidateMmsCube(i, 10) > CandidateMmsCube(c, 10)
                    \/ CandidateMmsCube(i, 10) = CandidateMmsCube(c, 10) /\ i < c})

\* the directives published by the invocation for stream entry k
DirectivesOf(k) ==
    {j \in 1..Len(stream) : /\ stream[j].event_name = "node_b.directive_emitted"
                            /\ stream[j].run_id = stream[k].run_id}

\* C35: for a Stage B invocation with desired count d: only candidates among
\* the top 2d by MMS are reserved; the provider calls of its pulse checks go
\* down the MMS order and none is made for a candidate once d candidates above
\* it have passed; it emits at most d directives, at most one per influencer,
\* each carrying the reservation_id made for that influencer by this
\* invocation; and once it has committed, that reservation row exists and each
\* reserved candidate whose pulse was checked and passes has its directive.
C35_TopCandidatesReservedAndChecked ==
    \A k \in 1..Len(stream) :
        stream[k].event_name = "node_b.input" =>
            LET d == stream[k].payload.limit
                above(c) == {j \in DirectivesOf(k) :
                                MmsRank(stream[j].payload.influencer_id) < MmsRank(c)}
            IN  /\ \A r \in reservations : \A c \in DOMAIN influencers :
                       r.id = ReservationId(k, c) =>
                           r.influencer_id = c /\ MmsRank(c) < 2 * d
                /\ \A a, b \in provider_ops :
                       (a.pos = k /\ b.pos = k /\ a.seq < b.seq) =>
                           MmsRank(a.influencer_id) <= MmsRank(b.influencer_id)
                /\ \A a \in provider_ops :
                       (a.pos = k /\ a.kind = "call") =>
                           Cardinality(above(a.influencer_id)) < d
                /\ Cardinality(DirectivesOf(k)) <= d
                /\ \A i, j \in DirectivesOf(k) :
                       stream[i].payload.influencer_id = stream[j].payload.influencer_id => i = j
                /\ \A j \in DirectivesOf(k) :
                       stream[j].payload.reservation_id
                           = ReservationId(k, stream[j].payload.influencer_id)
                /\ meta[k].result = "ok" =>
                       \A j \in DirectivesOf(k) : \E r \in reservations :
                           /\ r.id = stream[j].payload.reservation_id
                           /\ r.influencer_id = stream[j].payload.influencer_id
                /\ meta[k].result = "ok" =>
                       \A c \in DOMAIN influencers :
                           (/\ \E r \in reservations : r.id = ReservationId(k, c)
                            /\ influencers[c].last_pulse_checked_at >= 0
                            /\ influencers[c].recent_similarity >= PULSE_SIMILARITY_MIN
                            /\ Cardinality(above(c)) < d)
                           => \E j \in DirectivesOf(k) : stream[j].payload.influencer_id = c

\* desired count 1 and three candidates over the threshold: the top two are
\* reserved, the first drifted, the second passed and has the only directive
C35_Witness ==
    \E k \in 1..Len(stream) :
        /\ stream[k].event_name = "node_b.input"
        /\ stream[k].payload.limit = 1
        /\ meta[k].result = "ok"
        /\ {r.id : r \in reservations} = {ReservationId(k, 1), ReservationId(k, 2)}
        /\ influencers[1].recent_similarity < PULSE_SIMILARITY_MIN
        /\ influencers[1].last_pulse_checked_at >= 0
        /\ \E a \in provider_ops : a.pos = k /\ a.kind = "call" /\ a.influencer_id = 2
        /\ Cardinality(DirectivesOf(k)) = 1
        /\ \A j \in DirectivesOf(k) : stream[j].payload.influencer_id = 2

----------------------------------------------------------------------------
(* The per-run BudgetState of a worker *)

\* a BudgetState within the worker's Budget
WithinBudget(state) ==
    /\ state.dollars_spent <= budget
    /\ \A p \in DOMAIN bg.max_provider_calls :
           ProviderCalls(state, p) <= bg.max_provider_calls[p]

\* every BudgetState a worker holds is within the Budget
BudgetStatesWithin ==
    \A w \in Workers : \A key \in DOMAIN budget_states[w] :
        budget # NoBudget /\ WithinBudget(budget_states[w][key])

\* a step keeps every BudgetState, lowers none of its counts, and changes at
\* most that of the envelope the worker is handling
BudgetStatesStep ==
    \A w \in Workers :
        /\ \A key \in DOMAIN budget_states[w] :
               /\ key \in DOMAIN budget_states'[w]
               /\ budget_states'[w][key].dollars_spent >= budget_states[w][key].dollars_spent
               /\ \A p \in DOMAIN budget_states[w][key].provider_calls :
                      ProviderCalls(budget_states'[w][key], p)
                          >= budget_states[w][key].provider_calls[p]
        /\ budget_states'[w] # budget_states[w] =>
               /\ wpc[w] = "invoke"
               /\ \A key \in DOMAIN budget_states'[w] :
                      key # BudgetKey(Cur(w)) =>
                          /\ key \in DOMAIN budget_states[w]
                          /\ budget_states'[w][key] = budget_states[w][key]

\* C36: every per-run BudgetState of a worker has dollars_spent <= max_dollars
\* and provider_calls[p] <= max_provider_calls[p] for each capped provider p;
\* neither quantity ever decreases, and handling an envelope of one run
\* leaves the BudgetState of every other run as it was.
\* (a worker starts with no BudgetState, so the limits are stated of the state
\* each step leads to)
C36_BudgetStateWithinLimits == [][BudgetStatesWithin' /\ BudgetStatesStep]_vars

\* a worker holds the BudgetState of two runs, one of them stopped at the cap
\* of a provider and the other one at the dollar limit or below both
C36_Witness ==
    \E w \in Workers : \E k1, k2 \in DOMAIN budget_states[w] :
        /\ k1 # k2
        /\ \E p \in DOMAIN bg.max_provider_calls :
               ProviderCalls(budget_states[w][k1], p) = bg.max_provider_calls[p]
        /\ \E k \in 1..Len(stream) : /\ BudgetKey(stream[k]) = k1
                                     /\ meta[k].result = "budget"
        /\ budget_states[w][k2].dollars_spent > 0

----------------------------------------------------------------------------
(* Provider failures and budget exceptions inside a pulse check *)

\* the provider calls and guard evaluations of the invocation for entry k
OpsOf(k) == {o \in provider_ops : o.pos = k}

\* the pulse provider raised or returned nothing, or the embedding provider
\* raised, for influencer c
ProviderFailed(c) == influencers[c].summaries \in {"error", "empty", "unembeddable"}

\* the pulse loop came to candidate c: its cached pulse was used or a provider
\* was called for it
Examined(k, c) ==
    \/ influencers[c].last_pulse_checked_at >= 0
    \/ \E o \in OpsOf(k) : o.kind = "call" /\ o.influencer_id = c

\* C37: a provider error or an empty provider result for a candidate leaves
\* the candidate without a directive and its row as it was, and the Stage B
\* invocation goes on to the other reserved candidates and does not fail; a
\* BudgetExceeded of a provider cost comes out of Stage B as BudgetExceeded:
\* the worker takes the budget path (no retry, no dead letter), nothing the
\* invocation wrote is committed and it publishes nothing.
C37_InconclusiveOrBudgetExceeded ==
    \A k \in 1..Len(stream) :
        stream[k].event_name = "node_b.input" =>
            LET raised == \E o \in OpsOf(k) : o.kind = "guard_raise"
                run_id == stream[k].run_id
            IN  /\ raised =>
                       /\ meta[k].result = "budget"
                       /\ \A w \in Workers : wpc[w] # "failed"
                       /\ dlq = <<>>
                       /\ \A j \in 1..Len(stream) : stream[j].run_id = run_id => j = k
                       /\ \A r \in reservations : \A c \in DOMAIN influencers :
                              r.id # ReservationId(k, c)
                       /\ \A o \in OpsOf(k) :
                              influencers[o.influencer_id].recent_embedding_id
                                  # ReservationId(k, o.influencer_id)
                       /\ meta[k].acked =>
                              /\ runs[run_id].status = "failed"
                              /\ runs[run_id].error_message = "Budget exceeded"
                /\ ~raised =>
                       \A c \in DOMAIN influencers :
                           (ProviderFailed(c) /\ Examined(k, c)) =>
                               /\ meta[k].result \notin {"error", "budget"}
                               /\ \A w \in Workers : wpc[w] \notin {"failed", "budget_trap"}
                               /\ \A j \in DirectivesOf(k) : stream[j].payload.influencer_id # c
                               /\ influencers[c].recent_embedding_id # ReservationId(k, c)
                               /\ influencers[c].last_pulse_checked_at < 0
                               /\ (/\ meta[k].result = "ok"
                                   /\ Cardinality(DirectivesOf(k)) < stream[k].payload.limit)
                                  => \A c2 \in DOMAIN influencers :
                                         (\E r \in reservations : r.id = ReservationId(k, c2))
                                             => Examined(k, c2)
                               /\ meta[k].acked => runs[run_id].status # "failed"

\* the pulse provider failed for the first candidate, the loop went on to the
\* second, whose fetch cost the guard rejected: the run failed on the budget
C37_Witness ==
    \E k \in 1..Len(stream) :
        /\ stream[k].event_name = "node_b.input"
        /\ influencers[1].summaries = "error"
        /\ \E o \in OpsOf(k) : o.kind = "call" /\ o.influencer_id = 1
        /\ \E o \in OpsOf(k) : o.kind = "guard_raise" /\ o.influencer_id = 2
        /\ meta[k].result = "budget"
        /\ meta[k].acked
        /\ runs[stream[k].run_id].error_message = "Budget exceeded"

----------------------------------------------------------------------------
(* The idempotency gate and the tenant of an envelope *)

\* C38: the idempotency gate skips an envelope only when an envelope of the
\* same tenant with the same gate key was processed: what was processed for
\* one tenant never makes the gate skip an envelope of another tenant.
C38_GateSeparatesTenants ==
    \A k \in 1..Len(stream) :
        meta[k].result = "skipped" =>
            \E j \in 1..Len(stream) :
                /\ j # k
                /\ stream[j].tenant_id = stream[k].tenant_id
                /\ build_idem_key(stream[j]) = build_idem_key(stream[k])
                /\ meta[j].result = "ok"

----------------------------------------------------------------------------
(* The pulse cache *)

\* the row of influencer c has a pulse checked within the TTL and a recent
\* embedding id
CachedPulse(c) ==
    /\ influencers[c].last_pulse_checked_at >= 0
    /\ now - influencers[c].last_pulse_checked_at < PULSE_CACHE_TTL_MINUTES
    /\ influencers[c].recent_embedding_id # 0

----------------------------------------------------------------------------
(* The timeout result of await_completion *)

\* C40: when await_completion has returned the result with error_message
\* "await_completion timeout", the run row it read last was not in status
\* completed or failed.
C40_TimeoutOnlyWhenNotTerminal ==
    (/\ aw.pc = "returned"
     /\ aw.result.error_message = "await_completion timeout")
    => aw.row \notin {"completed", "failed"}

====
